---- MODULE Spec2Model ----
(***************************************************************************)
(* Model of the TiktokClipGenerator pipeline: story -> cast/location       *)
(* candidates -> storyboard -> video plan -> rendered segments -> final    *)
(* video, with the schema validators that gate the stages.                 *)
(*                                                                         *)
(* Encoding of Python values:                                              *)
(*   - times are integers in milliseconds (Sec = one second); round(x, 2)  *)
(*     is Round2, rounding to the nearest 10 ms;                           *)
(*   - a dict is a record, `key in d` is `key \in DOMAIN d`;               *)
(*   - None is NoneStr in a string slot, NoneInt in an integer slot and    *)
(*     NoneObj in a dict slot; a value that is not a dict is a record      *)
(*     with a pytype field;                                                *)
(*   - text built by f-strings is a tuple of its parts, "" is << >>.       *)
(***************************************************************************)
EXTENDS Integers, Sequences, FiniteSets, TLC

VARIABLES
    pc,               \* position of the entry point that is running
    brief,            \* arguments of the call
    story,            \* Phase 1 output
    phase2_output,    \* Phase 2 output
    storyboard,       \* Phase 3 output
    video_plan,       \* Phase 4 output
    render_result,    \* Phase 5 output (one result or the batch result)
    segment_paths,    \* assembler: the caller's list of paths
    asm,              \* assembler: locals of assemble_video_with_retry
    assemble_result,  \* Phase 5.5 output
    error,            \* exception raised by the entry point, if any
    trace,            \* history: stages started and checks passed, providers
                      \* tried, retry rounds run
    provider,         \* adapters: the provider instance a factory returned
    warnings,         \* adapters: the warnings emitted so far
    generation        \* adapters: the result of a generate call

vars == <<pc, brief, story, phase2_output, storyboard, video_plan,
          render_result, segment_paths, asm, assemble_result, error, trace,
          provider, warnings, generation>>

providerVars == <<provider, warnings, generation>>

----------------------------------------------------------------------------
(* Bounds of the model *)

MaxScenes == 2
MaxKeyframes == 2
MaxPaths == 3
MaxRetries == 2
MaxNum == 2
MaxPlanSegments == 2
MaxUpdates == 2

----------------------------------------------------------------------------
(* Python value encoding *)

Sec == 1000
NoneStr == "None"
NoneInt == 0 - 1
NoneObj == [pytype |-> "NoneType"]
NotADict == [pytype |-> "list"]
NoValue == [pytype |-> "unset"]
NoError == [kind |-> "none", phase |-> "none", message |-> "none"]

ProviderIdle == provider = NoValue /\ warnings = << >> /\ generation = NoValue

IsDict(x) == "pytype" \notin DOMAIN x
Truthy(s) == s # NoneStr /\ s # ""
Min(a, b) == IF a < b THEN a ELSE b
Max(a, b) == IF a > b THEN a ELSE b
Last(s) == s[Len(s)]
Drop(rec, key) == [k \in (DOMAIN rec) \ {key} |-> rec[k]]
Get(rec, key, default) == IF key \in DOMAIN rec THEN rec[key] ELSE default
Part(cond, x) == IF cond THEN <<x>> ELSE << >>

\* round(x, 2) on a value in milliseconds: nearest multiple of 10, ties to even
Round2(x) ==
    LET q == x \div 10
        r == x % 10
    IN  IF r < 5 THEN q * 10
        ELSE IF r > 5 THEN (q + 1) * 10
        ELSE IF q % 2 = 0 THEN q * 10 ELSE (q + 1) * 10

\* round(num / den, 2) with num in milliseconds
Round2Div(num, den) ==
    LET q == num \div (den * 10)
        r == num % (den * 10)
    IN  IF 2 * r < den * 10 THEN q * 10
        ELSE IF 2 * r > den * 10 THEN (q + 1) * 10
        ELSE IF q % 2 = 0 THEN q * 10 ELSE (q + 1) * 10

----------------------------------------------------------------------------
(* Phase 1: story_engine.generate_story *)

\* the three goals that have a template (Thai texts in the source)
KnownGoals == {"sell_online_course", "gain_followers", "build_brand"}
Goals == KnownGoals \cup {"other_goal"}
Products == {"AI Creator Tool", "Social Media Tool", ""}
Audiences == {"beginners", "creators", ""}
Platforms == {"Facebook Reel", "TikTok", ""}
ValidPurposes == {"hook", "conflict", "reveal", "close"}

\* dict.get(goal, generic): the goal's template, or the generic one
TemplateOf(goal) == IF goal \in KnownGoals THEN goal ELSE "generic"

SceneDescription(purpose, goal, product, audience, platform) ==
    <<purpose, TemplateOf(goal), product, audience, platform>>

StoryScenes(goal, product, audience, platform) ==
    <<[id |-> 1, purpose |-> "hook", emotion |-> "curious",
       duration |-> 3 * Sec,
       description |-> SceneDescription("hook", goal, product, audience, platform)],
      [id |-> 2, purpose |-> "conflict", emotion |-> "frustrated",
       duration |-> 5 * Sec,
       description |-> SceneDescription("conflict", goal, product, audience, platform)],
      [id |-> 3, purpose |-> "reveal", emotion |-> "relief",
       duration |-> 5 * Sec,
       description |-> SceneDescription("reveal", goal, product, audience, platform)],
      [id |-> 4, purpose |-> "close", emotion |-> "confident",
       duration |-> 4 * Sec,
       description |-> SceneDescription("close", goal, product, audience, platform)]>>

\* mutant: a goal without a template gets no closing scene
generate_story_NoClose(goal, product, audience, platform) ==
    [goal |-> goal, product |-> product, audience |-> audience,
     platform |-> platform,
     scenes |-> IF goal \in KnownGoals
                THEN StoryScenes(goal, product, audience, platform)
                ELSE SubSeq(StoryScenes(goal, product, audience, platform), 1, 3)]

generate_story(goal, product, audience, platform) ==
    [goal |-> goal, product |-> product, audience |-> audience,
     platform |-> platform,
     scenes |-> StoryScenes(goal, product, audience, platform)]

----------------------------------------------------------------------------
(* Phase 2: phase2_generator *)

NumTemplates == 5
CharacterNames == <<"expert", "real_user", "beginner", "content_creator", "teacher">>
CharacterStyles == <<"professional", "relatable", "approachable", "creative", "educational">>
LocationNames == <<"workplace", "home", "studio", "public_space", "digital_space">>
LocationStyles == <<"modern office", "cozy home", "creative studio", "public space", "digital interface">>

\* len(templates[:num_candidates])
SliceLen(num_candidates) ==
    IF num_candidates >= 0 THEN Min(num_candidates, NumTemplates)
    ELSE Max(NumTemplates + num_candidates, 0)

generate_character_candidates(st, num_candidates) ==
    [i \in 1..SliceLen(num_candidates) |->
        [id |-> i, name |-> CharacterNames[i], style |-> CharacterStyles[i],
         description |-> <<CharacterNames[i], st.product, st.audience>>,
         image_url |-> <<"mock-images", CharacterNames[i]>>,
         image_prompt |-> <<CharacterNames[i], CharacterStyles[i], st.audience>>]]

generate_location_candidates(st, num_candidates) ==
    [i \in 1..SliceLen(num_candidates) |->
        [id |-> i, name |-> LocationNames[i], style |-> LocationStyles[i],
         description |-> <<LocationNames[i]>>,
         image_url |-> <<"mock-images", LocationNames[i]>>,
         image_prompt |-> <<LocationNames[i], LocationStyles[i], st.platform>>]]

Ids(list) == {list[i].id : i \in 1..Len(list)}

StoryFields == {"goal", "product", "audience", "platform", "scenes"}

\* generate_phase2_output: [raised |-> TRUE] for a ValueError, else the output
generate_phase2_output(st, num_characters, num_locations, character_id_arg, location_id_arg) ==
    IF ~IsDict(st) \/ ~(StoryFields \subseteq DOMAIN st)
    THEN [raised |-> TRUE, output |-> NoValue]
    ELSE LET characters == generate_character_candidates(st, num_characters)
             locations == generate_location_candidates(st, num_locations)
             selected_character_id ==
                IF character_id_arg = NoneInt
                THEN (IF characters # << >> THEN 1 ELSE NoneInt)
                ELSE character_id_arg
             selected_location_id ==
                IF location_id_arg = NoneInt
                THEN (IF locations # << >> THEN 1 ELSE NoneInt)
                ELSE location_id_arg
         IN  IF \/ selected_character_id # NoneInt /\ selected_character_id \notin Ids(characters)
                \/ selected_location_id # NoneInt /\ selected_location_id \notin Ids(locations)
             THEN [raised |-> TRUE, output |-> NoValue]
             ELSE [raised |-> FALSE,
                   output |-> [story |-> st,
                               characters |-> characters,
                               locations |-> locations,
                               selection |-> [selected_character_id |-> selected_character_id,
                                              selected_location_id |-> selected_location_id]]]

\* dict[key] = value
SetKey(rec, key, value) ==
    [k \in DOMAIN rec \cup {key} |-> IF k = key THEN value ELSE rec[k]]

\* mutant: the supplied ids are stored without looking them up
update_selection_Unchecked(p2o, character_id_arg, location_id_arg) ==
    LET with_selection ==
            IF "selection" \in DOMAIN p2o THEN p2o ELSE SetKey(p2o, "selection", <<>>)
        with_character ==
            IF character_id_arg = NoneInt THEN with_selection
            ELSE [with_selection EXCEPT !.selection =
                    SetKey(@, "selected_character_id", character_id_arg)]
    IN  [raised |-> FALSE,
         output |-> IF location_id_arg = NoneInt THEN with_character
                    ELSE [with_character EXCEPT !.selection =
                            SetKey(@, "selected_location_id", location_id_arg)]]

\* update_selection changes phase2_output in place: output is the dict as the
\* call leaves it, also when it raises ValueError
update_selection(p2o, character_id_arg, location_id_arg) ==
    IF ~IsDict(p2o) THEN [raised |-> TRUE, output |-> p2o]
    ELSE
    LET characters == Get(p2o, "characters", << >>)
        locations == Get(p2o, "locations", << >>)
        with_selection ==
            IF "selection" \in DOMAIN p2o THEN p2o ELSE SetKey(p2o, "selection", <<>>)
        with_character ==
            IF character_id_arg = NoneInt THEN with_selection
            ELSE [with_selection EXCEPT !.selection =
                    SetKey(@, "selected_character_id", character_id_arg)]
    IN  IF character_id_arg # NoneInt /\ character_id_arg \notin Ids(characters)
        THEN [raised |-> TRUE, output |-> with_selection]
        ELSE IF location_id_arg # NoneInt /\ location_id_arg \notin Ids(locations)
        THEN [raised |-> TRUE, output |-> with_character]
        ELSE [raised |-> FALSE,
              output |-> IF location_id_arg = NoneInt THEN with_character
                         ELSE [with_character EXCEPT !.selection =
                                 SetKey(@, "selected_location_id", location_id_arg)]]

----------------------------------------------------------------------------
(* Phase 3: phase3_storyboard *)

KeyframeLabel == <<"first", "second", "third">>

\* mutant: the first bucket reaches up to four seconds
NumKeyframes_FourSeconds(duration) ==
    IF duration <= 4 * Sec THEN 1
    ELSE IF duration <= 5 * Sec THEN 2
    ELSE 3

NumKeyframes(duration) ==
    IF duration <= 3 * Sec THEN 1
    ELSE IF duration <= 5 * Sec THEN 2
    ELSE 3

KeyframeTiming(duration, num_keyframes, idx) ==
    IF num_keyframes = 1 THEN Round2Div(duration, 2)
    ELSE Round2Div(duration * (idx + 1), num_keyframes + 1)

\* keyframe_descriptions.get(purpose, [description] * 3)[min(idx, 2)]
KeyframeDescription(scene, idx) ==
    IF scene.purpose \in ValidPurposes
    THEN <<scene.purpose, KeyframeLabel[Min(idx, 2) + 1]>> \o scene.description
    ELSE scene.description

ObjName(obj) == IF IsDict(obj) THEN obj.name ELSE ""

\* mutant: keyframe ids are numbered within the scene only
map_scene_to_keyframes_LocalIds(scene, selected_character, selected_location) ==
    LET num_keyframes == NumKeyframes(scene.duration)
    IN  [i \in 1..num_keyframes |->
            [id |-> <<"kf", i>>,
             timing |-> KeyframeTiming(scene.duration, num_keyframes, i - 1),
             description |-> KeyframeDescription(scene, i - 1),
             image_path |-> <<"storyboard", scene.id, i>>,
             image_prompt |-> [desc |-> KeyframeDescription(scene, i - 1),
                               emotion |-> scene.emotion,
                               character |-> ObjName(selected_character),
                               location |-> ObjName(selected_location)]]]

map_scene_to_keyframes(scene, selected_character, selected_location) ==
    LET num_keyframes == NumKeyframes(scene.duration)
    IN  [i \in 1..num_keyframes |->
            [id |-> <<"scene", scene.id, "kf", i>>,
             timing |-> KeyframeTiming(scene.duration, num_keyframes, i - 1),
             description |-> KeyframeDescription(scene, i - 1),
             image_path |-> <<"storyboard", scene.id, i>>,
             image_prompt |-> [desc |-> KeyframeDescription(scene, i - 1),
                               emotion |-> scene.emotion,
                               character |-> ObjName(selected_character),
                               location |-> ObjName(selected_location)]]]

\* the story has already passed the required-field checks
build_storyboard(st, selected_character, selected_location) ==
    [story |-> [goal |-> st.goal, product |-> st.product,
                audience |-> st.audience, platform |-> st.platform],
     selected_character |-> selected_character,
     selected_location |-> selected_location,
     scenes |-> [i \in 1..Len(st.scenes) |->
        [scene_id |-> st.scenes[i].id,
         purpose |-> st.scenes[i].purpose,
         emotion |-> st.scenes[i].emotion,
         duration |-> st.scenes[i].duration,
         description |-> st.scenes[i].description,
         keyframes |-> map_scene_to_keyframes(st.scenes[i], selected_character,
                                              selected_location)]]]

\* the first candidate with the given id, None when there is none
FindById(list, id) ==
    IF id # NoneInt /\ \E i \in 1..Len(list) : list[i].id = id
    THEN list[CHOOSE i \in 1..Len(list) :
                /\ list[i].id = id
                /\ \A j \in 1..(i - 1) : list[j].id # id]
    ELSE NoneObj

\* build_storyboard_from_phase2: [raised |-> TRUE] for a ValueError
build_storyboard_from_phase2(p2o, character_id_arg, location_id_arg) ==
    IF ~IsDict(p2o) \/ "story" \notin DOMAIN p2o
    THEN [raised |-> TRUE, storyboard |-> NoValue]
    ELSE LET selection == Get(p2o, "selection", <<>>)
             selected_character_id ==
                IF character_id_arg = NoneInt
                THEN Get(selection, "selected_character_id", NoneInt)
                ELSE character_id_arg
             selected_location_id ==
                IF location_id_arg = NoneInt
                THEN Get(selection, "selected_location_id", NoneInt)
                ELSE location_id_arg
             selected_character == FindById(Get(p2o, "characters", <<>>), selected_character_id)
             selected_location == FindById(Get(p2o, "locations", <<>>), selected_location_id)
         IN  IF \/ ~IsDict(p2o.story)
                \/ ~(StoryFields \subseteq DOMAIN p2o.story)
                \/ p2o.story.scenes = << >>
             THEN [raised |-> TRUE, storyboard |-> NoValue]
             ELSE [raised |-> FALSE,
                   storyboard |-> build_storyboard(p2o.story, selected_character,
                                                   selected_location)]

----------------------------------------------------------------------------
(* Phase 4: phase4_video_plan *)

\* the flattened keyframe sequence, each keyframe with its scene's context
RECURSIVE AllKeyframes(_)
AllKeyframes(scenes) ==
    IF scenes = << >> THEN << >>
    ELSE LET scene == Head(scenes)
         IN  [i \in 1..Len(scene.keyframes) |->
                [keyframe |-> scene.keyframes[i],
                 scene_id |-> scene.scene_id,
                 scene_duration |-> scene.duration,
                 scene_purpose |-> scene.purpose,
                 scene_emotion |-> scene.emotion]]
             \o AllKeyframes(Tail(scenes))

\* the `if not <field>: raise ValueError` checks on a keyframe
KeyframeComplete(kf) ==
    /\ kf.id # << >>
    /\ kf.image_path # << >>
    /\ kf.description # << >>

\* mutant: the difference to the next keyframe is used across a scene boundary too
SegmentDuration_IgnoreScene(all_keyframes, idx) ==
    LET keyframe_data == all_keyframes[idx]
        start_timing == keyframe_data.keyframe.timing
        raw ==
            IF idx < Len(all_keyframes)
            THEN all_keyframes[idx + 1].keyframe.timing - start_timing
            ELSE keyframe_data.scene_duration - start_timing
    IN  IF raw < 1 * Sec THEN 1 * Sec ELSE raw

\* the duration of the segment that starts at keyframe idx, before rounding
SegmentDuration(all_keyframes, idx) ==
    LET keyframe_data == all_keyframes[idx]
        start_timing == keyframe_data.keyframe.timing
        raw ==
            IF idx < Len(all_keyframes)
            THEN IF all_keyframes[idx + 1].scene_id # keyframe_data.scene_id
                 THEN keyframe_data.scene_duration - start_timing
                 ELSE all_keyframes[idx + 1].keyframe.timing - start_timing
            ELSE keyframe_data.scene_duration - start_timing
    IN  IF raw < 1 * Sec THEN 1 * Sec ELSE raw

\* mutant: current_time starts again at 0 with every scene
RECURSIVE CurrentTime_PerScene(_, _)
CurrentTime_PerScene(all_keyframes, idx) ==
    IF idx = 1 THEN 0
    ELSE IF all_keyframes[idx].scene_id # all_keyframes[idx - 1].scene_id THEN 0
    ELSE CurrentTime_PerScene(all_keyframes, idx - 1)
            + SegmentDuration(all_keyframes, idx - 1)

\* current_time when the loop reaches keyframe idx
RECURSIVE CurrentTime(_, _)
CurrentTime(all_keyframes, idx) ==
    IF idx = 1 THEN 0
    ELSE CurrentTime(all_keyframes, idx - 1) + SegmentDuration(all_keyframes, idx - 1)

\* mutant: a segment never ends at a keyframe of another scene
EndKeyframe_SameSceneOnly(all_keyframes, idx) ==
    LET keyframe_data == all_keyframes[idx]
        kf == keyframe_data.keyframe
    IN  IF idx < Len(all_keyframes)
           /\ all_keyframes[idx + 1].scene_id = keyframe_data.scene_id
        THEN LET end_keyframe == all_keyframes[idx + 1].keyframe
             IN  [id |-> end_keyframe.id,
                  image_path |-> end_keyframe.image_path,
                  description |-> end_keyframe.description,
                  timing |-> Round2(end_keyframe.timing)]
        ELSE [id |-> kf.id,
              image_path |-> kf.image_path,
              description |-> kf.description,
              timing |-> Round2(kf.timing + keyframe_data.scene_duration - kf.timing)]

EndKeyframe(all_keyframes, idx) ==
    LET keyframe_data == all_keyframes[idx]
        kf == keyframe_data.keyframe
    IN  IF idx < Len(all_keyframes)
        THEN LET end_keyframe == all_keyframes[idx + 1].keyframe
             IN  [id |-> end_keyframe.id,
                  image_path |-> end_keyframe.image_path,
                  description |-> end_keyframe.description,
                  timing |-> Round2(end_keyframe.timing)]
        ELSE [id |-> kf.id,
              image_path |-> kf.image_path,
              description |-> kf.description,
              timing |-> Round2(kf.timing + keyframe_data.scene_duration - kf.timing)]

BuildSegment(all_keyframes, idx) ==
    LET keyframe_data == all_keyframes[idx]
        kf == keyframe_data.keyframe
        segment_duration == SegmentDuration(all_keyframes, idx)
        current_time == CurrentTime(all_keyframes, idx)
        end_kf == EndKeyframe(all_keyframes, idx)
    IN  [id |-> idx,
         scene_id |-> keyframe_data.scene_id,
         duration |-> Round2(segment_duration),
         start_time |-> Round2(current_time),
         end_time |-> Round2(current_time + segment_duration),
         description |-> <<kf.description, end_kf.description>>,
         purpose |-> keyframe_data.scene_purpose,
         emotion |-> keyframe_data.scene_emotion,
         start_keyframe |-> [id |-> kf.id, image_path |-> kf.image_path,
                             description |-> kf.description,
                             timing |-> Round2(kf.timing)],
         end_keyframe |-> end_kf]

\* map_storyboard_to_segments: [raised |-> TRUE] for a ValueError, else the list
map_storyboard_to_segments(sb) ==
    IF ~IsDict(sb) \/ "scenes" \notin DOMAIN sb THEN [raised |-> TRUE, segments |-> << >>]
    ELSE IF sb.scenes = << >> THEN [raised |-> TRUE, segments |-> << >>]
    ELSE LET all_keyframes == AllKeyframes(sb.scenes)
         IN  IF \E i \in 1..Len(all_keyframes) : ~KeyframeComplete(all_keyframes[i].keyframe)
             THEN [raised |-> TRUE, segments |-> << >>]
             ELSE [raised |-> FALSE,
                   segments |-> [i \in 1..Len(all_keyframes) |->
                                    BuildSegment(all_keyframes, i)]]

\* mutant: total_duration is the sum of the scene durations
RECURSIVE SumSceneDurations(_)
SumSceneDurations(scenes) ==
    IF scenes = << >> THEN 0
    ELSE Head(scenes).duration + SumSceneDurations(Tail(scenes))

generate_video_plan_SceneTotal(sb) ==
    LET mapped == map_storyboard_to_segments(sb)
        segments == mapped.segments
    IN  IF mapped.raised THEN [raised |-> TRUE, plan |-> NoValue]
        ELSE [raised |-> FALSE,
              plan |-> [storyboard_metadata |->
                            [story |-> sb.story,
                             selected_character |-> sb.selected_character,
                             selected_location |-> sb.selected_location],
                        segments |-> segments,
                        total_duration |-> Round2(SumSceneDurations(sb.scenes)),
                        segment_count |-> Len(segments)]]

generate_video_plan(sb) ==
    LET mapped == map_storyboard_to_segments(sb)
        segments == mapped.segments
        total_duration == IF segments # << >> THEN Last(segments).end_time ELSE 0
    IN  IF mapped.raised THEN [raised |-> TRUE, plan |-> NoValue]
        ELSE [raised |-> FALSE,
              plan |-> [storyboard_metadata |->
                            [story |-> sb.story,
                             selected_character |-> sb.selected_character,
                             selected_location |-> sb.selected_location],
                        segments |-> segments,
                        total_duration |-> Round2(total_duration),
                        segment_count |-> Len(segments)]]

----------------------------------------------------------------------------
(* Phase 5: phase5_segment_renderer *)

RequiredSegmentFields == <<"start_keyframe", "end_keyframe", "directive", "continuity_locks">>
RequiredKeyframeFields == <<"id", "image_path", "description", "timing">>

\* the value uuid4/timestamp put into a generated path
UniqueIds == {"a1", "b2"}

create_segment_schema(segment_id, start_keyframe, end_keyframe, directive, continuity_locks, metadata) ==
    [id |-> segment_id,
     duration |-> 8 * Sec,
     start_keyframe |-> [id |-> Get(start_keyframe, "id", NoneStr),
                         image_path |-> Get(start_keyframe, "image_path", NoneStr),
                         description |-> Get(start_keyframe, "description", NoneStr),
                         timing |-> Get(start_keyframe, "timing", 0)],
     end_keyframe |-> [id |-> Get(end_keyframe, "id", NoneStr),
                       image_path |-> Get(end_keyframe, "image_path", NoneStr),
                       description |-> Get(end_keyframe, "description", NoneStr),
                       timing |-> Get(end_keyframe, "timing", 0)],
     directive |-> [motion_type |-> Get(directive, "motion_type", "smooth"),
                    camera_movement |-> Get(directive, "camera_movement", "none"),
                    transition_style |-> Get(directive, "transition_style", "fade")],
     continuity_locks |-> [character |-> Get(continuity_locks, "character", NoneStr),
                           location |-> Get(continuity_locks, "location", NoneStr),
                           style |-> Get(continuity_locks, "style", NoneStr),
                           emotion |-> Get(continuity_locks, "emotion", NoneStr)],
     metadata |-> metadata]

\* build_render_prompt: [raised |-> TRUE] for an exception, else the prompt parts
build_render_prompt(segment, story_context) ==
    LET start_kf == segment.start_keyframe
        end_kf == segment.end_keyframe
        directive == Get(segment, "directive", <<>>)
        continuity == Get(segment, "continuity_locks", <<>>)
    IN  IF \/ "start_keyframe" \notin DOMAIN segment
           \/ "end_keyframe" \notin DOMAIN segment
        THEN [raised |-> TRUE, prompt |-> << >>]
        ELSE IF \/ ~IsDict(start_kf) \/ "description" \notin DOMAIN start_kf
                \/ ~IsDict(end_kf) \/ "description" \notin DOMAIN end_kf
        THEN [raised |-> TRUE, prompt |-> << >>]
        \* .get on a value that is not a dict raises AttributeError
        ELSE IF ~IsDict(continuity) \/ ~IsDict(directive)
        THEN [raised |-> TRUE, prompt |-> << >>]
        ELSE [raised |-> FALSE,
              prompt |->
                <<<<"Start", start_kf.description>>, <<"End", end_kf.description>>>>
                \o Part(Truthy(Get(continuity, "character", NoneStr)),
                        <<"Character", Get(continuity, "character", NoneStr)>>)
                \o Part(Truthy(Get(continuity, "location", NoneStr)),
                        <<"Location", Get(continuity, "location", NoneStr)>>)
                \o Part(Truthy(Get(continuity, "style", NoneStr)),
                        <<"Style", Get(continuity, "style", NoneStr)>>)
                \o Part(Truthy(Get(continuity, "emotion", NoneStr)),
                        <<"Emotion", Get(continuity, "emotion", NoneStr)>>)
                \o <<<<"Motion", Get(directive, "motion_type", "smooth")>>>>
                \o Part(Get(directive, "camera_movement", "none") # "none",
                        <<"Camera", Get(directive, "camera_movement", "none")>>)
                \o <<<<"Transition", Get(directive, "transition_style", "fade")>>>>
                \o Part(IsDict(story_context) /\ Get(story_context, "product", "") # "",
                        <<"Product context", Get(story_context, "product", "")>>)
                \o Part(IsDict(story_context) /\ Get(story_context, "platform", "") # "",
                        <<"Platform", Get(story_context, "platform", "")>>)
                \o <<<<"Duration", "8 seconds">>>>]

MockVideoPath == [u \in UniqueIds |->
    IF u = "a1" THEN "output/segments/segment_a1.mp4"
    ELSE "output/segments/segment_b2.mp4"]

mock_google_video_generation(prompt, start_keyframe_path, end_keyframe_path, duration, unique_id) ==
    [success |-> TRUE,
     video_path |-> MockVideoPath[unique_id],
     duration |-> duration,
     metadata |-> [prompt |-> prompt,
                   start_keyframe |-> start_keyframe_path,
                   end_keyframe |-> end_keyframe_path,
                   api_version |-> "mock_v1.0"]]

\* a failure result of render_segment
RenderFailure(segment_id, prompt, err) ==
    [success |-> FALSE, segment_id |-> segment_id, video_path |-> NoneStr,
     duration |-> 8 * Sec, prompt |-> prompt, error |-> err]

\* mutant: the success result reports the duration the segment came with
RenderSuccess_UpstreamDuration(segment_id, api_result, prompt, original_duration) ==
    [success |-> TRUE, segment_id |-> segment_id,
     video_path |-> api_result.video_path,
     duration |-> original_duration, prompt |-> prompt, error |-> NoneStr,
     metadata |-> [prompt |-> api_result.metadata.prompt,
                   start_keyframe |-> api_result.metadata.start_keyframe,
                   end_keyframe |-> api_result.metadata.end_keyframe,
                   api_version |-> api_result.metadata.api_version,
                   original_duration |-> original_duration]]

\* the success result of render_segment
RenderSuccess(segment_id, api_result, prompt, original_duration) ==
    [success |-> TRUE, segment_id |-> segment_id,
     video_path |-> api_result.video_path,
     duration |-> 8 * Sec, prompt |-> prompt, error |-> NoneStr,
     metadata |-> [prompt |-> api_result.metadata.prompt,
                   start_keyframe |-> api_result.metadata.start_keyframe,
                   end_keyframe |-> api_result.metadata.end_keyframe,
                   api_version |-> api_result.metadata.api_version,
                   original_duration |-> original_duration]]

MissingField(rec, fields) == \E i \in 1..Len(fields) : fields[i] \notin DOMAIN rec

\* the first keyframe field, in the order of the loop, that one of the two lacks
MissingKeyframeField(start_keyframe, end_keyframe) ==
    \E i \in 1..Len(RequiredKeyframeFields) :
        \/ RequiredKeyframeFields[i] \notin DOMAIN start_keyframe
        \/ RequiredKeyframeFields[i] \notin DOMAIN end_keyframe

render_segment(segment, story_context, unique_id) ==
    IF ~IsDict(segment)
    THEN RenderFailure(NoneInt, NoneStr, "segment must be a dictionary")
    ELSE IF Get(segment, "id", NoneInt) = NoneInt
    THEN RenderFailure(NoneInt, NoneStr, "segment must have 'id' field")
    ELSE LET segment_id == segment.id IN
    IF MissingField(segment, RequiredSegmentFields)
    THEN RenderFailure(segment_id, NoneStr, "segment must have field")
    ELSE IF ~IsDict(segment.start_keyframe)
    THEN RenderFailure(segment_id, NoneStr, "segment 'start_keyframe' must be an object")
    ELSE IF ~IsDict(segment.end_keyframe)
    THEN RenderFailure(segment_id, NoneStr, "segment 'end_keyframe' must be an object")
    ELSE IF MissingKeyframeField(segment.start_keyframe, segment.end_keyframe)
    THEN RenderFailure(segment_id, NoneStr, "keyframe missing required field")
    ELSE LET original_duration == Get(segment, "duration", 8 * Sec)
             built == build_render_prompt(segment, story_context)
         IN  IF built.raised
             THEN RenderFailure(segment_id, NoneStr, "failed to build prompt")
             ELSE LET api_result == mock_google_video_generation(
                                        built.prompt,
                                        segment.start_keyframe.image_path,
                                        segment.end_keyframe.image_path,
                                        8 * Sec, unique_id)
                  IN  IF api_result.success
                      THEN RenderSuccess(segment_id, api_result, built.prompt,
                                         original_duration)
                      ELSE RenderFailure(segment_id, built.prompt, "API call failed")

\* the checks of the batch loop that raise ValueError for a plan segment
PlanSegmentRaises(segment) ==
    \/ "start_keyframe" \notin DOMAIN segment
    \/ "end_keyframe" \notin DOMAIN segment
    \/ ~IsDict(segment.start_keyframe)
    \/ ~IsDict(segment.end_keyframe)
    \/ MissingKeyframeField(segment.start_keyframe, segment.end_keyframe)

\* the Phase 5 segment the batch loop builds from a plan segment
Phase5Segment(plan, segment) ==
    LET storyboard_metadata == Get(plan, "storyboard_metadata", <<>>)
        selected_character == Get(storyboard_metadata, "selected_character", NoneObj)
        selected_location == Get(storyboard_metadata, "selected_location", NoneObj)
        schema == create_segment_schema(
                    Get(segment, "id", NoneInt),
                    segment.start_keyframe, segment.end_keyframe,
                    [motion_type |-> "smooth", camera_movement |-> "none",
                     transition_style |-> "fade"],
                    [character |-> NoneStr, location |-> NoneStr, style |-> NoneStr,
                     emotion |-> Get(segment, "emotion", NoneStr)],
                    [scene_id |-> Get(segment, "scene_id", NoneInt),
                     purpose |-> Get(segment, "purpose", NoneStr),
                     original_duration |-> Get(segment, "duration", NoneInt)])
    IN  [schema EXCEPT
            !.continuity_locks.character =
                IF IsDict(selected_character) THEN Get(selected_character, "name", NoneStr)
                ELSE @,
            !.continuity_locks.location =
                IF IsDict(selected_location) THEN Get(selected_location, "name", NoneStr)
                ELSE @]

\* the ids of the plan segments whose result is a failure, in plan order
RECURSIVE FailedIds(_, _)
FailedIds(segments, results) ==
    IF segments = << >> THEN << >>
    ELSE Part(~Head(results).success, Get(Head(segments), "id", NoneInt))
         \o FailedIds(Tail(segments), Tail(results))

CountSuccess(results) == Cardinality({i \in 1..Len(results) : results[i].success})

\* mutant: the loop over the plan segments stops at the first failed segment
render_segments_from_video_plan_StopAtFailure(plan, story_context_arg, unique_ids) ==
    IF ~IsDict(plan) \/ "segments" \notin DOMAIN plan
    THEN [raised |-> TRUE, result |-> NoValue]
    ELSE IF plan.segments = << >>
    THEN [raised |-> TRUE, result |-> NoValue]
    ELSE IF \E i \in 1..Len(plan.segments) : PlanSegmentRaises(plan.segments[i])
    THEN [raised |-> TRUE, result |-> NoValue]
    ELSE LET segments == plan.segments
             story_context ==
                IF story_context_arg = NoneObj
                THEN Get(Get(plan, "storyboard_metadata", <<>>), "story", NoneObj)
                ELSE story_context_arg
             all_rendered ==
                [i \in 1..Len(segments) |->
                    render_segment(Phase5Segment(plan, segments[i]), story_context,
                                   unique_ids[i])]
             stop == IF \E i \in 1..Len(segments) : ~all_rendered[i].success
                     THEN CHOOSE i \in 1..Len(segments) :
                            /\ ~all_rendered[i].success
                            /\ \A j \in 1..(i - 1) : all_rendered[j].success
                     ELSE Len(segments)
             rendered_segments == SubSeq(all_rendered, 1, stop)
             failed_segments == FailedIds(SubSeq(segments, 1, stop), rendered_segments)
         IN  [raised |-> FALSE,
              result |-> [success |-> Len(failed_segments) = 0,
                          total_segments |-> Len(segments),
                          successful_segments |-> CountSuccess(rendered_segments),
                          failed_segments |-> failed_segments,
                          rendered_segments |-> rendered_segments]]

\* render_segments_from_video_plan; unique_ids[i] goes into the path of segment i
render_segments_from_video_plan(plan, story_context_arg, unique_ids) ==
    IF ~IsDict(plan) \/ "segments" \notin DOMAIN plan
    THEN [raised |-> TRUE, result |-> NoValue]
    ELSE IF plan.segments = << >>
    THEN [raised |-> TRUE, result |-> NoValue]
    ELSE IF \E i \in 1..Len(plan.segments) : PlanSegmentRaises(plan.segments[i])
    THEN [raised |-> TRUE, result |-> NoValue]
    ELSE LET segments == plan.segments
             story_context ==
                IF story_context_arg = NoneObj
                THEN Get(Get(plan, "storyboard_metadata", <<>>), "story", NoneObj)
                ELSE story_context_arg
             rendered_segments ==
                [i \in 1..Len(segments) |->
                    render_segment(Phase5Segment(plan, segments[i]), story_context,
                                   unique_ids[i])]
             failed_segments == FailedIds(segments, rendered_segments)
         IN  [raised |-> FALSE,
              result |-> [success |-> Len(failed_segments) = 0,
                          total_segments |-> Len(segments),
                          successful_segments |-> CountSuccess(rendered_segments),
                          failed_segments |-> failed_segments,
                          rendered_segments |-> rendered_segments]]

----------------------------------------------------------------------------
(* Phase 5.5: phase5_assembler *)

\* the files os.path.exists finds on disk
ExistingPaths == {"output/seg_on_disk.mp4"}
PathExists(p) == p \in ExistingPaths

GeneratedOutputPath == "output/final_video_generated.mp4"
RetryPath == "output/segment_retry.mp4"

\* mutant: no output path is generated when the caller gives none
mock_video_stitch_KeepNone(paths, output_path) == output_path

mock_video_stitch(paths, output_path) ==
    IF output_path = NoneStr THEN GeneratedOutputPath ELSE output_path

ValidSegments(paths) == SelectSeq(paths, Truthy)

\* mutant: only the empty string counts as a failed path, None is overlooked
RECURSIVE FailedIndices_EmptyOnly(_, _)
FailedIndices_EmptyOnly(paths, idx) ==
    IF paths = << >> THEN << >>
    ELSE Part(Head(paths) = "", idx) \o FailedIndices_EmptyOnly(Tail(paths), idx + 1)

\* the indices (from idx on) of the paths that are empty or None
RECURSIVE FailedIndices(_, _)
FailedIndices(paths, idx) ==
    IF paths = << >> THEN << >>
    ELSE Part(~Truthy(Head(paths)), idx) \o FailedIndices(Tail(paths), idx + 1)

\* mutant: the retry branch counts the failed segments as re-rendered
assemble_video_RetryRepairs(paths, output_path, retry_failed, max_retries) ==
    LET failed_segments == FailedIndices(paths, 0)
        valid_segments == ValidSegments(paths)
        retried == retry_failed /\ failed_segments # << >> /\ 0 < max_retries
        final_path == mock_video_stitch(valid_segments, output_path)
    IN  [success |-> retried \/ Len(failed_segments) = 0,
         output_path |-> final_path,
         failed_segments |-> IF retried THEN << >> ELSE failed_segments,
         retry_count |-> IF retried THEN 1 ELSE 0,
         total_segments |-> Len(paths),
         successful_segments |-> IF retried THEN Len(paths) ELSE Len(valid_segments)]

\* assemble_video; the list is not empty
assemble_video(paths, output_path, retry_failed, max_retries) ==
    LET failed_segments == FailedIndices(paths, 0)
        valid_segments == ValidSegments(paths)
        retry_count == IF retry_failed /\ failed_segments # << >> /\ 0 < max_retries
                       THEN 1 ELSE 0
        final_path == mock_video_stitch(valid_segments, output_path)
    IN  [success |-> Len(failed_segments) = 0,
         output_path |-> final_path,
         failed_segments |-> failed_segments,
         retry_count |-> retry_count,
         total_segments |-> Len(paths),
         successful_segments |-> Len(valid_segments)]

\* the first check of assemble_video_with_retry: empty, None or not on disk
RECURSIVE MissingIndices(_, _)
MissingIndices(paths, idx) ==
    IF paths = << >> THEN << >>
    ELSE Part(~Truthy(Head(paths)) \/ ~PathExists(Head(paths)), idx)
         \o MissingIndices(Tail(paths), idx + 1)

\* list.remove(x): the list without the first occurrence of x
RECURSIVE Remove(_, _)
Remove(list, x) ==
    IF list = << >> THEN << >>
    ELSE IF Head(list) = x THEN Tail(list)
    ELSE <<Head(list)>> \o Remove(Tail(list), x)

\* what one call of the render callback does
CallbackOutcomes == {"path", "empty", "none", "raise"}

\* retry_segment: the new path (None on failure) and the updated list;
\* without a callback the mock path is used
retry_segment(segment_index, paths, has_fn, outcome) ==
    IF segment_index < 0 \/ segment_index >= Len(paths)
    THEN [new_path |-> NoneStr, paths |-> paths]
    ELSE IF ~has_fn
    THEN [new_path |-> RetryPath, paths |-> [paths EXCEPT ![segment_index + 1] = RetryPath]]
    ELSE CASE outcome = "path" ->
                [new_path |-> RetryPath,
                 paths |-> [paths EXCEPT ![segment_index + 1] = RetryPath]]
           [] outcome = "empty" ->
                [new_path |-> "", paths |-> [paths EXCEPT ![segment_index + 1] = ""]]
           [] outcome = "none" ->
                [new_path |-> NoneStr,
                 paths |-> [paths EXCEPT ![segment_index + 1] = NoneStr]]
           [] outcome = "raise" ->
                [new_path |-> NoneStr, paths |-> paths]

----------------------------------------------------------------------------
(* validators/schema_validators: TRUE when the validator returns (True, None). *)
(* The isinstance checks on fields hold of every value the model builds.     *)

validate_phase1_story(st) ==
    /\ IsDict(st)
    /\ StoryFields \subseteq DOMAIN st
    /\ st.scenes # << >>
    /\ \A i \in 1..Len(st.scenes) :
          /\ {"id", "purpose", "emotion", "duration", "description"}
                \subseteq DOMAIN st.scenes[i]
          /\ st.scenes[i].purpose \in ValidPurposes
          /\ st.scenes[i].duration > 0

validate_phase2_output(p2o) ==
    /\ IsDict(p2o)
    /\ {"story", "characters", "locations", "selection"} \subseteq DOMAIN p2o
    /\ IsDict(p2o.story)
    /\ StoryFields \subseteq DOMAIN p2o.story
    /\ p2o.characters # << >>
    /\ p2o.locations # << >>
    /\ IsDict(p2o.selection)
    /\ {"selected_character_id", "selected_location_id"} \subseteq DOMAIN p2o.selection
    /\ \/ p2o.selection.selected_character_id = NoneInt
       \/ p2o.selection.selected_character_id \in Ids(p2o.characters)
    /\ \/ p2o.selection.selected_location_id = NoneInt
       \/ p2o.selection.selected_location_id \in Ids(p2o.locations)

KeyframeFieldsP3 == {"id", "timing", "description", "image_path", "image_prompt"}

validate_phase3_storyboard(sb) ==
    /\ IsDict(sb)
    /\ {"story", "scenes"} \subseteq DOMAIN sb
    /\ IsDict(sb.story)
    /\ {"goal", "product", "audience", "platform"} \subseteq DOMAIN sb.story
    /\ sb.scenes # << >>
    /\ \A i \in 1..Len(sb.scenes) :
          /\ {"scene_id", "purpose", "emotion", "duration", "description", "keyframes"}
                \subseteq DOMAIN sb.scenes[i]
          /\ \A k \in 1..Len(sb.scenes[i].keyframes) :
                KeyframeFieldsP3 \subseteq DOMAIN sb.scenes[i].keyframes[k]

PlanSegmentFields ==
    {"id", "scene_id", "duration", "start_time", "end_time", "description",
     "purpose", "emotion", "start_keyframe", "end_keyframe"}

validate_phase4_video_plan(plan) ==
    /\ IsDict(plan)
    /\ {"storyboard_metadata", "segments", "total_duration", "segment_count"}
          \subseteq DOMAIN plan
    /\ IsDict(plan.storyboard_metadata)
    /\ "story" \in DOMAIN plan.storyboard_metadata
    /\ IsDict(plan.storyboard_metadata.story)
    /\ {"goal", "product", "audience", "platform"}
          \subseteq DOMAIN plan.storyboard_metadata.story
    /\ plan.segments # << >>
    /\ \A i \in 1..Len(plan.segments) :
          /\ IsDict(plan.segments[i])
          /\ PlanSegmentFields \subseteq DOMAIN plan.segments[i]
          /\ plan.segments[i].id # NoneInt
          /\ IsDict(plan.segments[i].start_keyframe)
          /\ IsDict(plan.segments[i].end_keyframe)
          /\ ~MissingKeyframeField(plan.segments[i].start_keyframe,
                                   plan.segments[i].end_keyframe)
    /\ plan.segment_count = Len(plan.segments)

validate_phase5_render_result(rr) ==
    /\ IsDict(rr)
    /\ {"success", "total_segments", "successful_segments", "failed_segments",
        "rendered_segments"} \subseteq DOMAIN rr
    /\ rr.total_segments = Len(rr.rendered_segments)
    /\ \A i \in 1..Len(rr.rendered_segments) :
          /\ {"success", "segment_id", "duration", "prompt"}
                \subseteq DOMAIN rr.rendered_segments[i]
          /\ rr.rendered_segments[i].duration = 8 * Sec
          /\ rr.rendered_segments[i].success =>
                /\ "video_path" \in DOMAIN rr.rendered_segments[i]
                /\ Truthy(rr.rendered_segments[i].video_path)

validate_phase5_5_assemble_result(ar) ==
    /\ IsDict(ar)
    /\ {"success", "output_path", "failed_segments", "retry_count", "total_segments",
        "successful_segments"} \subseteq DOMAIN ar
    /\ ar.success => Truthy(ar.output_path)
    /\ ar.successful_segments + Len(ar.failed_segments) = ar.total_segments

validate_phase2_input(st) == validate_phase1_story(st)
validate_phase3_input(p2o) == validate_phase2_output(p2o)
validate_phase4_input(sb) == validate_phase3_storyboard(sb)
validate_phase5_input(plan) == validate_phase4_video_plan(plan)
validate_phase5_5_input(rr) == validate_phase5_render_result(rr)

ValidationError(phase, message) ==
    [kind |-> "ValidationError", phase |-> phase, message |-> <<phase, message>>]

\* PhaseOrderError(current_phase, required_phase): phase is the current phase,
\* the required phase only appears in the message
PhaseOrderError(current_phase, required_phase) ==
    [kind |-> "PhaseOrderError", phase |-> current_phase,
     message |-> <<current_phase, "Cannot run", current_phase,
                   "without completing", required_phase, "first">>]

----------------------------------------------------------------------------
(* Entry point: generate_story called on a brief *)

Idle == /\ story = NoValue /\ phase2_output = NoValue /\ storyboard = NoValue
        /\ video_plan = NoValue /\ render_result = NoValue
        /\ segment_paths = << >> /\ asm = NoValue /\ assemble_result = NoValue
        /\ error = NoError /\ trace = << >>

Briefs == [goal : Goals, product : Products, audience : Audiences,
           platform : Platforms]

InitStory ==
    /\ pc = "call"
    /\ brief \in Briefs
    /\ Idle
    /\ ProviderIdle

GenerateStory ==
    /\ pc = "call"
    /\ story' = generate_story(brief.goal, brief.product, brief.audience, brief.platform)
    /\ pc' = "done"
    /\ UNCHANGED <<brief, phase2_output, storyboard, video_plan, render_result,
                   segment_paths, asm, assemble_result, error, trace>>
    /\ UNCHANGED providerVars

NextStory == GenerateStory

SpecStory == InitStory /\ [][NextStory]_vars

----------------------------------------------------------------------------
(* Entry point: generate_video_plan called on a storyboard *)

TimingSet == {500, 2000}
DurationSet == {2500, 3000}
BlankImage == {"none", "first", "last"}

StoryMeta == [goal |-> "build_brand", product |-> "AI Creator Tool",
              audience |-> "creators", platform |-> "TikTok"]

TimingSeqs == UNION {[1..n -> TimingSet] : n \in 0..MaxKeyframes}

\* scene number i of an input storyboard: id i, keyframes at the given timings
InputScene(i, duration, timings) ==
    [scene_id |-> i, purpose |-> "hook", emotion |-> "curious",
     duration |-> duration, description |-> <<"scene", "text">>,
     keyframes |-> [k \in 1..Len(timings) |->
        [id |-> <<"scene", i, "kf", k>>, timing |-> timings[k],
         description |-> <<"hook", KeyframeLabel[Min(k, 3)]>>,
         image_path |-> <<"storyboard", i, k>>,
         image_prompt |-> <<"prompt">>]]]

\* the storyboard with the image_path of its first or last keyframe emptied
RECURSIVE BlankFirst(_)
BlankFirst(scenes) ==
    IF scenes = << >> THEN << >>
    ELSE IF Head(scenes).keyframes = << >> THEN <<Head(scenes)>> \o BlankFirst(Tail(scenes))
    ELSE <<[Head(scenes) EXCEPT !.keyframes[1].image_path = << >>]>> \o Tail(scenes)

RECURSIVE BlankLast(_)
BlankLast(scenes) ==
    IF scenes = << >> THEN << >>
    ELSE LET n == Len(scenes)
             front == SubSeq(scenes, 1, n - 1)
             k == Len(scenes[n].keyframes)
         IN  IF k = 0 THEN BlankLast(front) \o <<scenes[n]>>
             ELSE front \o <<[scenes[n] EXCEPT !.keyframes[k].image_path = << >>]>>

Blanked(scenes, which) ==
    IF which = "first" THEN BlankFirst(scenes)
    ELSE IF which = "last" THEN BlankLast(scenes)
    ELSE scenes

\* the input storyboard of scenes with durations d and keyframe timings t
InputStoryboard(d, t, w) ==
    [story |-> StoryMeta, selected_character |-> NoneObj,
     selected_location |-> NoneObj,
     scenes |-> Blanked([i \in 1..Len(d) |-> InputScene(i, d[i], t[i])], w)]

InitPlan ==
    /\ pc = "call"
    /\ \E m \in 0..MaxScenes :
          \E d \in [1..m -> DurationSet], t \in [1..m -> TimingSeqs], w \in BlankImage :
              storyboard = InputStoryboard(d, t, w)
    /\ brief = NoValue /\ story = NoValue /\ phase2_output = NoValue
    /\ video_plan = NoValue /\ render_result = NoValue
    /\ segment_paths = << >> /\ asm = NoValue /\ assemble_result = NoValue
    /\ error = NoError /\ trace = << >>
    /\ ProviderIdle

GenerateVideoPlan ==
    /\ pc = "call"
    /\ LET r == generate_video_plan(storyboard)
       IN  IF r.raised
           THEN /\ error' = [kind |-> "ValueError"]
                /\ pc' = "raised"
                /\ UNCHANGED video_plan
           ELSE /\ video_plan' = r.plan
                /\ pc' = "done"
                /\ UNCHANGED error
    /\ UNCHANGED <<brief, story, phase2_output, storyboard, render_result,
                   segment_paths, asm, assemble_result, trace>>
    /\ UNCHANGED providerVars

NextPlan == GenerateVideoPlan

SpecPlan == InitPlan /\ [][NextPlan]_vars

----------------------------------------------------------------------------
(* Entry point: render_segment called on one segment *)

SegmentDurations == {1 * Sec, 2500, 8 * Sec, 12 * Sec}

SampleKeyframe(scene, k) ==
    [id |-> <<"scene", scene, "kf", k>>,
     image_path |-> <<"storyboard", scene, k>>,
     description |-> <<"hook", KeyframeLabel[k]>>,
     timing |-> 500 * k]

SampleStory == generate_story("build_brand", "AI Creator Tool", "creators", "TikTok")

\* a complete Phase 5 segment
SampleSegment(id, duration) ==
    [id |-> id, duration |-> duration,
     start_keyframe |-> SampleKeyframe(1, 1),
     end_keyframe |-> SampleKeyframe(1, 2),
     directive |-> [motion_type |-> "smooth", camera_movement |-> "zoom_in",
                    transition_style |-> "fade"],
     continuity_locks |-> [character |-> "expert", location |-> NoneStr,
                           style |-> NoneStr, emotion |-> "curious"]]

SegmentDefects ==
    {"none", "not_a_dict", "no_id", "id_none", "no_duration",
     "no_start_keyframe", "no_end_keyframe", "no_directive", "no_continuity_locks",
     "start_not_dict", "end_not_dict", "directive_not_dict", "continuity_not_dict",
     "start_no_id", "start_no_image_path", "start_no_description", "start_no_timing",
     "end_no_id", "end_no_image_path", "end_no_description", "end_no_timing"}

Defective(seg, defect) ==
    CASE defect = "none" -> seg
      [] defect = "not_a_dict" -> NotADict
      [] defect = "no_id" -> Drop(seg, "id")
      [] defect = "id_none" -> [seg EXCEPT !.id = NoneInt]
      [] defect = "no_duration" -> Drop(seg, "duration")
      [] defect = "no_start_keyframe" -> Drop(seg, "start_keyframe")
      [] defect = "no_end_keyframe" -> Drop(seg, "end_keyframe")
      [] defect = "no_directive" -> Drop(seg, "directive")
      [] defect = "no_continuity_locks" -> Drop(seg, "continuity_locks")
      [] defect = "start_not_dict" -> [seg EXCEPT !.start_keyframe = NotADict]
      [] defect = "end_not_dict" -> [seg EXCEPT !.end_keyframe = NotADict]
      [] defect = "directive_not_dict" -> [seg EXCEPT !.directive = NoneObj]
      [] defect = "continuity_not_dict" -> [seg EXCEPT !.continuity_locks = NoneObj]
      [] defect = "start_no_id" -> [seg EXCEPT !.start_keyframe = Drop(@, "id")]
      [] defect = "start_no_image_path" -> [seg EXCEPT !.start_keyframe = Drop(@, "image_path")]
      [] defect = "start_no_description" -> [seg EXCEPT !.start_keyframe = Drop(@, "description")]
      [] defect = "start_no_timing" -> [seg EXCEPT !.start_keyframe = Drop(@, "timing")]
      [] defect = "end_no_id" -> [seg EXCEPT !.end_keyframe = Drop(@, "id")]
      [] defect = "end_no_image_path" -> [seg EXCEPT !.end_keyframe = Drop(@, "image_path")]
      [] defect = "end_no_description" -> [seg EXCEPT !.end_keyframe = Drop(@, "description")]
      [] defect = "end_no_timing" -> [seg EXCEPT !.end_keyframe = Drop(@, "timing")]

InputSegments ==
    {Defective(SampleSegment(id, d), defect) :
        id \in 1..2, d \in SegmentDurations, defect \in SegmentDefects}

StoryContexts == {NoneObj, SampleStory}

InitRender ==
    /\ pc = "call"
    /\ brief \in [segment : InputSegments, story_context : StoryContexts]
    /\ Idle
    /\ ProviderIdle

RenderSegment ==
    /\ pc = "call"
    /\ \E unique_id \in UniqueIds :
          render_result' = render_segment(brief.segment, brief.story_context, unique_id)
    /\ pc' = "done"
    /\ UNCHANGED <<brief, story, phase2_output, storyboard, video_plan,
                   segment_paths, asm, assemble_result, error, trace>>
    /\ UNCHANGED providerVars

NextRender == RenderSegment

SpecRender == InitRender /\ [][NextRender]_vars

----------------------------------------------------------------------------
(* Entry point: render_segments_from_video_plan called on a video plan *)

PlanDurations == {1 * Sec, 2500, 8 * Sec}

PlanSegmentDefects ==
    {"none", "no_id", "no_duration", "no_start_keyframe", "end_not_dict",
     "end_no_timing"}

\* segment number i of a Phase 4 plan
PlanSegment(i, duration) ==
    [id |-> i, scene_id |-> 1, duration |-> duration,
     start_time |-> 0, end_time |-> duration,
     description |-> <<"hook", "first", "hook", "second">>,
     purpose |-> "hook", emotion |-> "curious",
     start_keyframe |-> SampleKeyframe(1, 1),
     end_keyframe |-> SampleKeyframe(1, 2)]

SampleCharacter == [id |-> 1, name |-> "expert", style |-> "professional"]

PlanMetadata ==
    {[story |-> StoryMeta, selected_character |-> c, selected_location |-> NoneObj] :
        c \in {NoneObj, SampleCharacter}}

InputPlans ==
    {[storyboard_metadata |-> StoryMeta] }
    \cup
    {[storyboard_metadata |-> m,
      segments |-> [i \in 1..n |-> Defective(PlanSegment(i, d[i]), f[i])],
      total_duration |-> 0, segment_count |-> n] :
        <<n, d, f, m>> \in
            UNION {{<<k, dd, ff, mm>> : dd \in [1..k -> PlanDurations],
                                        ff \in [1..k -> PlanSegmentDefects],
                                        mm \in PlanMetadata} : k \in 0..MaxPlanSegments}}

InitRenderPlan ==
    /\ pc = "call"
    /\ video_plan \in InputPlans
    /\ brief \in [story_context : StoryContexts]
    /\ story = NoValue /\ phase2_output = NoValue /\ storyboard = NoValue
    /\ render_result = NoValue
    /\ segment_paths = << >> /\ asm = NoValue /\ assemble_result = NoValue
    /\ error = NoError /\ trace = << >>
    /\ ProviderIdle

RenderSegmentsFromVideoPlan ==
    /\ pc = "call"
    /\ LET n == IF "segments" \in DOMAIN video_plan THEN Len(video_plan.segments) ELSE 0
       IN  \E unique_ids \in [1..n -> UniqueIds] :
             LET r == render_segments_from_video_plan(video_plan, brief.story_context,
                                                      unique_ids)
             IN  IF r.raised
                 THEN /\ error' = [kind |-> "ValueError"]
                      /\ pc' = "raised"
                      /\ UNCHANGED render_result
                 ELSE /\ render_result' = r.result
                      /\ pc' = "done"
                      /\ UNCHANGED error
    /\ UNCHANGED <<brief, story, phase2_output, storyboard, video_plan,
                   segment_paths, asm, assemble_result, trace>>
    /\ UNCHANGED providerVars

NextRenderPlan == RenderSegmentsFromVideoPlan

SpecRenderPlan == InitRenderPlan /\ [][NextRenderPlan]_vars

----------------------------------------------------------------------------
(* Claims about the segment renderer (SpecRender, SpecRenderPlan) *)

\* C1: every result of render_segment, success or failure, for a well-formed
\* or malformed segment of any upstream duration, has duration exactly 8.0.
C1_RenderedDurationFixed ==
    pc = "done" => render_result.duration = 8 * Sec

C1_Witness ==
    /\ pc = "done"
    /\ render_result.success
    /\ "duration" \in DOMAIN brief.segment
    /\ brief.segment.duration = 2500
    /\ render_result.duration = 8 * Sec

\* C2: for every segment of a plan rendered by render_segments_from_video_plan,
\* the result's metadata.original_duration equals the duration field of that
\* Phase 4 segment.
C2_OriginalDurationKept ==
    pc = "done" =>
        \A i \in 1..Len(render_result.rendered_segments) :
            (/\ render_result.rendered_segments[i].success
             /\ "duration" \in DOMAIN video_plan.segments[i])
            => render_result.rendered_segments[i].metadata.original_duration
                 = video_plan.segments[i].duration

\* the plan segment carries start and end keyframe objects with all fields
HasKeyframes(segment) ==
    /\ {"start_keyframe", "end_keyframe"} \subseteq DOMAIN segment
    /\ IsDict(segment.start_keyframe)
    /\ IsDict(segment.end_keyframe)
    /\ {"id", "image_path", "description", "timing"}
          \subseteq (DOMAIN segment.start_keyframe \cap DOMAIN segment.end_keyframe)

\* the result holds one entry per plan segment, in plan order, and every failed
\* entry has success false, an error string and its id in failed_segments
OneEntryPerSegment ==
    LET segments == video_plan.segments
        rendered == render_result.rendered_segments
        failed == {i \in 1..Len(rendered) : ~rendered[i].success}
    IN  /\ render_result.total_segments = Len(segments)
        /\ Len(rendered) = Len(segments)
        /\ \A i \in 1..Len(rendered) :
              /\ rendered[i].segment_id = Get(segments[i], "id", NoneInt)
              /\ ~rendered[i].success =>
                    /\ rendered[i].error # NoneStr
                    /\ \E k \in 1..Len(render_result.failed_segments) :
                          render_result.failed_segments[k]
                              = Get(segments[i], "id", NoneInt)
        /\ Len(render_result.failed_segments) = Cardinality(failed)
        /\ render_result.successful_segments = Len(rendered) - Cardinality(failed)
        /\ render_result.success = (failed = {})

\* C16 as stated: the batch is never aborted by one segment's failure; for
\* every plan with at least one segment the result holds one entry per plan
\* segment, failed ones included.
C16_BatchNeverAborted ==
    (/\ pc # "call"
     /\ "segments" \in DOMAIN video_plan
     /\ video_plan.segments # << >>)
    => (pc = "done" /\ OneEntryPerSegment)

\* C16 amended: when every plan segment carries its start and end keyframe
\* objects with the required fields, a segment whose rendering fails yields a
\* failed entry and the later segments are still rendered; a plan segment
\* without them aborts the whole batch with ValueError.
C16_BatchKeepsGoing ==
    /\ pc = "done" => OneEntryPerSegment
    /\ (/\ pc # "call"
        /\ "segments" \in DOMAIN video_plan
        /\ video_plan.segments # << >>)
       => (pc = "raised" <=>
             \E i \in 1..Len(video_plan.segments) : ~HasKeyframes(video_plan.segments[i]))

C16_Witness ==
    /\ pc = "done"
    /\ \E i, j \in 1..Len(render_result.rendered_segments) :
          /\ i < j
          /\ ~render_result.rendered_segments[i].success
          /\ render_result.rendered_segments[j].success
    /\ render_result.failed_segments # << >>

----------------------------------------------------------------------------
(* Entry points: assemble_video and assemble_video_with_retry *)

PathValues == {NoneStr, "", "output/seg_on_disk.mp4", "output/seg_not_on_disk.mp4"}
OutputPaths == {NoneStr, "", "output/final.mp4"}

PathLists == UNION {[1..n -> PathValues] : n \in 0..MaxPaths}

AssembleCalls ==
    [entry : {"assemble_video"}, output_path : OutputPaths,
     retry_failed : BOOLEAN, max_retries : 0..MaxRetries, has_fn : {FALSE}]
    \cup
    [entry : {"assemble_video_with_retry"}, output_path : OutputPaths,
     retry_failed : {TRUE}, max_retries : 0..MaxRetries, has_fn : BOOLEAN]

InitAssemble ==
    /\ pc = "call"
    /\ brief \in AssembleCalls
    /\ segment_paths \in PathLists
    /\ story = NoValue /\ phase2_output = NoValue /\ storyboard = NoValue
    /\ video_plan = NoValue /\ render_result = NoValue
    /\ asm = NoValue /\ assemble_result = NoValue
    /\ error = NoError /\ trace = << >>
    /\ ProviderIdle

AssembleUnchanged ==
    UNCHANGED <<brief, story, phase2_output, storyboard, video_plan,
                render_result, segment_paths, trace>>

\* assemble_video(segment_paths, output_path, retry_failed, max_retries)
AssembleVideo ==
    /\ pc = "call"
    /\ brief.entry = "assemble_video"
    /\ IF segment_paths = << >>
       THEN /\ error' = [kind |-> "ValueError"]
            /\ pc' = "raised"
            /\ UNCHANGED assemble_result
       ELSE /\ assemble_result' = assemble_video(segment_paths, brief.output_path,
                                                 brief.retry_failed, brief.max_retries)
            /\ pc' = "done"
            /\ UNCHANGED error
    /\ UNCHANGED asm
    /\ AssembleUnchanged
    /\ UNCHANGED providerVars

\* assemble_video_with_retry: copy the list and find the failed indices
RetryStart ==
    /\ pc = "call"
    /\ brief.entry = "assemble_video_with_retry"
    /\ asm' = [current_segments |-> segment_paths,
               failed_segments |-> MissingIndices(segment_paths, 0),
               retry_count |-> 0,
               retried_segments |-> << >>,
               todo |-> << >>]
    /\ pc' = "while"
    /\ UNCHANGED <<assemble_result, error>>
    /\ AssembleUnchanged
    /\ UNCHANGED providerVars

\* the test of the while loop; a new round copies failed_segments
RetryWhile ==
    /\ pc = "while"
    /\ IF asm.retry_count < brief.max_retries /\ asm.failed_segments # << >>
       THEN /\ asm' = [asm EXCEPT !.retry_count = @ + 1,
                                  !.retried_segments = << >>,
                                  !.todo = asm.failed_segments]
            /\ pc' = "for"
       ELSE /\ pc' = "stitch"
            /\ UNCHANGED asm
    /\ UNCHANGED <<assemble_result, error>>
    /\ AssembleUnchanged
    /\ UNCHANGED providerVars

\* one iteration of the for loop: retry_segment on the next failed index
RetryOne ==
    /\ pc = "for"
    /\ asm.todo # << >>
    /\ \E outcome \in CallbackOutcomes :
         LET idx == Head(asm.todo)
             r == retry_segment(idx, asm.current_segments, brief.has_fn, outcome)
         IN  asm' = [asm EXCEPT
                        !.current_segments = r.paths,
                        !.failed_segments =
                            IF Truthy(r.new_path) THEN Remove(@, idx) ELSE @,
                        !.retried_segments =
                            IF Truthy(r.new_path) THEN Append(@, idx) ELSE @,
                        !.todo = Tail(@)]
    /\ UNCHANGED <<pc, assemble_result, error>>
    /\ AssembleUnchanged
    /\ UNCHANGED providerVars

\* the round that just ended, for the history kept in trace: how many indices
\* were failed when it began and how many of them were re-rendered
RoundRecord ==
    [failed |-> Len(asm.failed_segments) + Len(asm.retried_segments),
     retried |-> Len(asm.retried_segments)]

\* mutant: a round without any re-rendered index does not end the loop
RetryEndRound_NoEarlyExit ==
    /\ pc = "for"
    /\ asm.todo = << >>
    /\ pc' = "while"
    /\ trace' = Append(trace, RoundRecord)
    /\ UNCHANGED <<asm, assemble_result, error>>
    /\ UNCHANGED <<brief, story, phase2_output, storyboard, video_plan,
                   render_result, segment_paths>>
    /\ UNCHANGED providerVars

\* the end of a round: stop when no index was re-rendered
RetryEndRound ==
    /\ pc = "for"
    /\ asm.todo = << >>
    /\ pc' = IF asm.retried_segments = << >> THEN "stitch" ELSE "while"
    /\ trace' = Append(trace, RoundRecord)
    /\ UNCHANGED <<asm, assemble_result, error>>
    /\ UNCHANGED <<brief, story, phase2_output, storyboard, video_plan,
                   render_result, segment_paths>>
    /\ UNCHANGED providerVars

\* the final assemble_video(current_segments, output_path, False, 0)
RetryStitch ==
    /\ pc = "stitch"
    /\ IF asm.current_segments = << >>
       THEN /\ error' = [kind |-> "ValueError"]
            /\ pc' = "raised"
            /\ UNCHANGED assemble_result
       ELSE /\ assemble_result' =
                [assemble_video(asm.current_segments, brief.output_path, FALSE, 0)
                    EXCEPT !.retry_count = asm.retry_count]
            /\ pc' = "done"
            /\ UNCHANGED error
    /\ UNCHANGED asm
    /\ AssembleUnchanged
    /\ UNCHANGED providerVars

NextAssemble ==
    \/ AssembleVideo
    \/ RetryStart
    \/ RetryWhile
    \/ RetryOne
    \/ RetryEndRound
    \/ RetryStitch

SpecAssemble == InitAssemble /\ [][NextAssemble]_vars

\* the calls return: every step of the loops is eventually taken
SpecAssembleFair == SpecAssemble /\ WF_vars(NextAssemble)

----------------------------------------------------------------------------
(* Entry point: end_to_end_run.run_end_to_end, one step per stage and per    *)
(* output check                                                              *)

PhaseName == <<"Phase 1", "Phase 2", "Phase 3", "Phase 4", "Phase 5", "Phase 5.5">>

RunBriefs ==
    [goal : {"sell_online_course", "other_goal"},
     product : {"AI Creator Tool"},
     audience : {"beginners"},
     platform : {"Facebook Reel"},
     selected_character_id : 1..(MaxNum + 1),
     selected_location_id : 1..(MaxNum + 1),
     num_characters : 0..MaxNum,
     num_locations : 0..MaxNum,
     output_path : OutputPaths]

InitRun ==
    /\ pc = "phase1"
    /\ brief \in RunBriefs
    /\ Idle
    /\ ProviderIdle

Started(k) == Append(trace, <<"start", PhaseName[k]>>)
Validated(k) == Append(trace, <<"validated", PhaseName[k]>>)

Raise(err) ==
    /\ error' = err
    /\ pc' = "raised"

Phase1 ==
    /\ pc = "phase1"
    /\ story' = generate_story(brief.goal, brief.product, brief.audience, brief.platform)
    /\ trace' = Started(1)
    /\ pc' = "validate1"
    /\ UNCHANGED <<brief, phase2_output, storyboard, video_plan, render_result,
                   segment_paths, asm, assemble_result, error>>
    /\ UNCHANGED providerVars

ValidatePhase1 ==
    /\ pc = "validate1"
    /\ IF ~validate_phase1_story(story)
       THEN Raise(ValidationError("Phase 1", "Output validation failed")) /\ UNCHANGED trace
       ELSE pc' = "phase2" /\ trace' = Validated(1) /\ UNCHANGED error
    /\ UNCHANGED <<brief, story, phase2_output, storyboard, video_plan, render_result,
                   segment_paths, asm, assemble_result>>
    /\ UNCHANGED providerVars

Phase2 ==
    /\ pc = "phase2"
    /\ IF ~validate_phase2_input(story)
       THEN /\ Raise(PhaseOrderError("Phase 2", "Phase 1" \o " output invalid"))
            /\ UNCHANGED <<phase2_output, trace>>
       ELSE LET r == generate_phase2_output(story, brief.num_characters,
                                            brief.num_locations, NoneInt, NoneInt)
            IN  IF r.raised
                THEN /\ Raise([kind |-> "ValueError", phase |-> "Phase 2",
                               message |-> "none"])
                     /\ trace' = Started(2)
                     /\ UNCHANGED phase2_output
                ELSE /\ phase2_output' = r.output
                     /\ trace' = Started(2)
                     /\ pc' = "validate2"
                     /\ UNCHANGED error
    /\ UNCHANGED <<brief, story, storyboard, video_plan, render_result,
                   segment_paths, asm, assemble_result>>
    /\ UNCHANGED providerVars

\* mutant: the output check of Phase 2 is left out
ValidatePhase2_Skip ==
    /\ pc = "validate2"
    /\ pc' = "phase3" /\ trace' = Validated(2) /\ UNCHANGED error
    /\ UNCHANGED <<brief, story, phase2_output, storyboard, video_plan, render_result,
                   segment_paths, asm, assemble_result>>
    /\ UNCHANGED providerVars

ValidatePhase2 ==
    /\ pc = "validate2"
    /\ IF ~validate_phase2_output(phase2_output)
       THEN Raise(ValidationError("Phase 2", "Output validation failed")) /\ UNCHANGED trace
       ELSE pc' = "phase3" /\ trace' = Validated(2) /\ UNCHANGED error
    /\ UNCHANGED <<brief, story, phase2_output, storyboard, video_plan, render_result,
                   segment_paths, asm, assemble_result>>
    /\ UNCHANGED providerVars

Phase3 ==
    /\ pc = "phase3"
    /\ IF ~validate_phase3_input(phase2_output)
       THEN /\ Raise(PhaseOrderError("Phase 3", "Phase 2" \o " output invalid"))
            /\ UNCHANGED <<storyboard, trace>>
       ELSE LET r == build_storyboard_from_phase2(phase2_output,
                                                  brief.selected_character_id,
                                                  brief.selected_location_id)
            IN  IF r.raised
                THEN /\ Raise([kind |-> "ValueError", phase |-> "Phase 3",
                               message |-> "none"])
                     /\ trace' = Started(3)
                     /\ UNCHANGED storyboard
                ELSE /\ storyboard' = r.storyboard
                     /\ trace' = Started(3)
                     /\ pc' = "validate3"
                     /\ UNCHANGED error
    /\ UNCHANGED <<brief, story, phase2_output, video_plan, render_result,
                   segment_paths, asm, assemble_result>>
    /\ UNCHANGED providerVars

ValidatePhase3 ==
    /\ pc = "validate3"
    /\ IF ~validate_phase3_storyboard(storyboard)
       THEN Raise(ValidationError("Phase 3", "Output validation failed")) /\ UNCHANGED trace
       ELSE pc' = "phase4" /\ trace' = Validated(3) /\ UNCHANGED error
    /\ UNCHANGED <<brief, story, phase2_output, storyboard, video_plan, render_result,
                   segment_paths, asm, assemble_result>>
    /\ UNCHANGED providerVars

Phase4 ==
    /\ pc = "phase4"
    /\ IF ~validate_phase4_input(storyboard)
       THEN /\ Raise(PhaseOrderError("Phase 4", "Phase 3" \o " output invalid"))
            /\ UNCHANGED <<video_plan, trace>>
       ELSE LET r == generate_video_plan(storyboard)
            IN  IF r.raised
                THEN /\ Raise([kind |-> "ValueError", phase |-> "Phase 4",
                               message |-> "none"])
                     /\ trace' = Started(4)
                     /\ UNCHANGED video_plan
                ELSE /\ video_plan' = r.plan
                     /\ trace' = Started(4)
                     /\ pc' = "validate4"
                     /\ UNCHANGED error
    /\ UNCHANGED <<brief, story, phase2_output, storyboard, render_result,
                   segment_paths, asm, assemble_result>>
    /\ UNCHANGED providerVars

ValidatePhase4 ==
    /\ pc = "validate4"
    /\ IF ~validate_phase4_video_plan(video_plan)
       THEN Raise(ValidationError("Phase 4", "Output validation failed")) /\ UNCHANGED trace
       ELSE pc' = "phase5" /\ trace' = Validated(4) /\ UNCHANGED error
    /\ UNCHANGED <<brief, story, phase2_output, storyboard, video_plan, render_result,
                   segment_paths, asm, assemble_result>>
    /\ UNCHANGED providerVars

Phase5 ==
    /\ pc = "phase5"
    /\ IF ~validate_phase5_input(video_plan)
       THEN /\ Raise(PhaseOrderError("Phase 5", "Phase 4" \o " output invalid"))
            /\ UNCHANGED <<render_result, trace>>
       ELSE \E unique_id \in UniqueIds :
            LET r == render_segments_from_video_plan(
                        video_plan, story,
                        [i \in 1..Len(video_plan.segments) |-> unique_id])
            IN  IF r.raised
                THEN /\ Raise([kind |-> "ValueError", phase |-> "Phase 5",
                               message |-> "none"])
                     /\ trace' = Started(5)
                     /\ UNCHANGED render_result
                ELSE /\ render_result' = r.result
                     /\ trace' = Started(5)
                     /\ pc' = "validate5"
                     /\ UNCHANGED error
    /\ UNCHANGED <<brief, story, phase2_output, storyboard, video_plan,
                   segment_paths, asm, assemble_result>>
    /\ UNCHANGED providerVars

ValidatePhase5 ==
    /\ pc = "validate5"
    /\ IF ~validate_phase5_render_result(render_result)
       THEN Raise(ValidationError("Phase 5", "Output validation failed")) /\ UNCHANGED trace
       ELSE pc' = "phase5_5" /\ trace' = Validated(5) /\ UNCHANGED error
    /\ UNCHANGED <<brief, story, phase2_output, storyboard, video_plan, render_result,
                   segment_paths, asm, assemble_result>>
    /\ UNCHANGED providerVars

\* mutant: the paths of all rendered segments, failed ones included
RECURSIVE SuccessfulPaths_All(_)
SuccessfulPaths_All(rendered) ==
    IF rendered = << >> THEN << >>
    ELSE <<Get(Head(rendered), "video_path", NoneStr)>>
         \o SuccessfulPaths_All(Tail(rendered))

\* the video paths of the successfully rendered segments
RECURSIVE SuccessfulPaths(_)
SuccessfulPaths(rendered) ==
    IF rendered = << >> THEN << >>
    ELSE Part(Head(rendered).success, Get(Head(rendered), "video_path", NoneStr))
         \o SuccessfulPaths(Tail(rendered))

Phase5_5 ==
    /\ pc = "phase5_5"
    /\ IF ~validate_phase5_5_input(render_result)
       THEN /\ Raise(PhaseOrderError("Phase 5.5", "Phase 5" \o " output invalid"))
            /\ UNCHANGED <<segment_paths, assemble_result, trace>>
       ELSE LET paths == SuccessfulPaths(render_result.rendered_segments)
            IN  IF paths = << >>
                THEN /\ Raise(ValidationError("Phase 5.5",
                                              "No successful segments to assemble"))
                     /\ UNCHANGED <<segment_paths, assemble_result, trace>>
                ELSE /\ segment_paths' = paths
                     /\ assemble_result' = assemble_video(paths, brief.output_path,
                                                          FALSE, 3)
                     /\ trace' = Started(6)
                     /\ pc' = "validate5_5"
                     /\ UNCHANGED error
    /\ UNCHANGED <<brief, story, phase2_output, storyboard, video_plan,
                   render_result, asm>>
    /\ UNCHANGED providerVars

\* mutant: a failed output check of Phase 5.5 does not stop the run
ValidatePhase5_5_NoRaise ==
    /\ pc = "validate5_5"
    /\ pc' = "done" /\ trace' = Validated(6) /\ UNCHANGED error
    /\ UNCHANGED <<brief, story, phase2_output, storyboard, video_plan, render_result,
                   segment_paths, asm, assemble_result>>
    /\ UNCHANGED providerVars

\* the last output check; the summary is built and the run returns
ValidatePhase5_5 ==
    /\ pc = "validate5_5"
    /\ IF ~validate_phase5_5_assemble_result(assemble_result)
       THEN Raise(ValidationError("Phase 5.5", "Output validation failed")) /\ UNCHANGED trace
       ELSE pc' = "done" /\ trace' = Validated(6) /\ UNCHANGED error
    /\ UNCHANGED <<brief, story, phase2_output, storyboard, video_plan, render_result,
                   segment_paths, asm, assemble_result>>
    /\ UNCHANGED providerVars

NextRun ==
    \/ Phase1 \/ ValidatePhase1
    \/ Phase2 \/ ValidatePhase2
    \/ Phase3 \/ ValidatePhase3
    \/ Phase4 \/ ValidatePhase4
    \/ Phase5 \/ ValidatePhase5
    \/ Phase5_5 \/ ValidatePhase5_5

SpecRun == InitRun /\ [][NextRun]_vars

\* runs with mock generation on the least and the largest number of candidates,
\* the selected ids 1 and the output path left to its default
InitRunMock ==
    /\ pc = "phase1"
    /\ brief \in {b \in RunBriefs :
                    /\ b.num_characters \in {1, MaxNum}
                    /\ b.num_locations \in {1, MaxNum}
                    /\ b.selected_character_id = 1
                    /\ b.selected_location_id = 1
                    /\ b.output_path = NoneStr}
    /\ Idle
    /\ ProviderIdle

\* run_end_to_end is straight-line code: a step that can be taken is taken
SpecRunFair == InitRunMock /\ [][NextRun]_vars /\ WF_vars(NextRun)

\* the summary run_end_to_end returns, as far as it reports the assembly
Summary ==
    [total_segments |-> Get(video_plan, "segment_count", 0),
     final_video_path |-> Get(assemble_result, "output_path", NoneStr),
     successful_segments |-> Get(render_result, "successful_segments", 0),
     failed_segments |-> Get(render_result, "failed_segments", << >>),
     assemble_success |-> Get(assemble_result, "success", FALSE)]

----------------------------------------------------------------------------
(* Claims about the assembler (SpecAssemble) *)

\* C3: every result of assemble_video and of assemble_video_with_retry has
\* successful_segments + len(failed_segments) = total_segments, for every
\* non-empty list of paths, retry setting and behaviour of the callback.
C3_AssembleCounts ==
    pc = "done" =>
        assemble_result.successful_segments + Len(assemble_result.failed_segments)
            = assemble_result.total_segments

C3_Witness ==
    /\ pc = "done"
    /\ brief.entry = "assemble_video_with_retry"
    /\ brief.has_fn
    /\ asm.retry_count >= 1
    /\ assemble_result.successful_segments >= 1
    /\ Len(assemble_result.failed_segments) >= 1
    /\ \E i \in 1..Len(segment_paths) : segment_paths[i] = NoneStr

\* the 0-based indices of the caller's paths that are empty or None
EmptyPathIndices ==
    SelectSeq([i \in 1..Len(segment_paths) |-> i - 1],
              LAMBDA k : segment_paths[k + 1] \in {"", NoneStr})

\* C27: assemble_video never re-renders a segment: retry_count is 1 when
\* retry_failed is set, max_retries > 0 and a path is empty or None, and 0
\* otherwise; failed_segments, successful_segments and success are those of
\* the same call with retry_failed = False.
C27_RetryFlagOnlyCounts ==
    (pc = "done" /\ brief.entry = "assemble_video") =>
        /\ assemble_result.retry_count =
              IF brief.retry_failed /\ brief.max_retries > 0 /\ EmptyPathIndices # << >>
              THEN 1 ELSE 0
        /\ assemble_result.failed_segments = EmptyPathIndices
        /\ assemble_result.successful_segments
              = Len(segment_paths) - Len(EmptyPathIndices)
        /\ assemble_result.success = (EmptyPathIndices = << >>)
        /\ LET plain == assemble_video(segment_paths, brief.output_path, FALSE,
                                       brief.max_retries)
           IN  /\ assemble_result.failed_segments = plain.failed_segments
               /\ assemble_result.successful_segments = plain.successful_segments
               /\ assemble_result.success = plain.success

C27_Witness ==
    /\ pc = "done"
    /\ brief.entry = "assemble_video"
    /\ brief.retry_failed
    /\ brief.max_retries > 0
    /\ assemble_result.retry_count = 1
    /\ assemble_result.success = FALSE
    /\ assemble_result.failed_segments = <<1>>
    /\ assemble_result.successful_segments = 2

\* C4: every assemble result with success = True has a non-empty output_path,
\* whether the caller passed None, a non-empty string or an empty string.
C4_SuccessHasOutputPath ==
    (pc = "done" /\ assemble_result.success) => Truthy(assemble_result.output_path)

----------------------------------------------------------------------------
(* Claims about the end-to-end run (SpecRun) *)

\* the trace of a run in which every stage started and passed its check
FullTrace ==
    <<  <<"start", "Phase 1">>, <<"validated", "Phase 1">>,
        <<"start", "Phase 2">>, <<"validated", "Phase 2">>,
        <<"start", "Phase 3">>, <<"validated", "Phase 3">>,
        <<"start", "Phase 4">>, <<"validated", "Phase 4">>,
        <<"start", "Phase 5">>, <<"validated", "Phase 5">>,
        <<"start", "Phase 5.5">>, <<"validated", "Phase 5.5">>  >>

HasStarted(k) == Len(trace) >= 2 * k - 1
HasPassed(k) == Len(trace) >= 2 * k

\* stage k has returned and the check of its output has been evaluated
CheckedOut(k) ==
    /\ HasStarted(k)
    /\ pc # <<"validate1", "validate2", "validate3", "validate4", "validate5",
              "validate5_5">>[k]
    /\ ~(pc = "raised" /\ error.kind = "ValueError")

\* the verdict of stage k's validator on the output stage k produced
ValidOutput(k) ==
    CASE k = 1 -> validate_phase1_story(story)
      [] k = 2 -> validate_phase2_output(phase2_output)
      [] k = 3 -> validate_phase3_storyboard(storyboard)
      [] k = 4 -> validate_phase4_video_plan(video_plan)
      [] k = 5 -> validate_phase5_render_result(render_result)
      [] k = 6 -> validate_phase5_5_assemble_result(assemble_result)

\* C5: the six stages start in the order Phase 1, 2, 3, 4, 5, 5.5, a stage
\* starts only after the output of the preceding stage has passed that stage's
\* validator, and when the output of a stage fails validation the run raises
\* ValidationError naming that phase and starts no later stage.
C5_StageOrderAndValidation ==
    /\ Len(trace) <= Len(FullTrace)
    /\ trace = SubSeq(FullTrace, 1, Len(trace))
    /\ \A k \in 1..6 :
          /\ HasPassed(k) => ValidOutput(k)
          /\ (CheckedOut(k) /\ ~ValidOutput(k)) =>
                /\ pc = "raised"
                /\ error.kind = "ValidationError"
                /\ error.phase = PhaseName[k]
                /\ Len(trace) = 2 * k - 1

C5_Witness ==
    /\ pc = "raised"
    /\ brief.output_path = ""
    /\ error.kind = "ValidationError"
    /\ error.phase = "Phase 5.5"
    /\ HasPassed(5)
    /\ ~ValidOutput(6)

\* C6 as stated: when the output of a stage has not passed validation the next
\* stage is not executed and the run aborts with a PhaseOrderError naming the
\* stage being started and the required predecessor.
C6_AbortsWithPhaseOrderError ==
    \A k \in 1..5 :
        (CheckedOut(k) /\ ~ValidOutput(k)) =>
            /\ ~HasStarted(k + 1)
            /\ pc = "raised"
            /\ error = PhaseOrderError(PhaseName[k + 1],
                                       PhaseName[k] \o " output invalid")

\* C6 amended: a stage whose predecessor output has not passed validation is
\* never executed, and the abort is the ValidationError of the predecessor,
\* raised by the check of that stage's own output; the phase-order guard runs
\* the same validator on the same object and never raises PhaseOrderError.
C6_AbortsWithPredecessorValidationError ==
    /\ error.kind # "PhaseOrderError"
    /\ \A k \in 1..5 :
          /\ HasStarted(k + 1) => ValidOutput(k)
          /\ (CheckedOut(k) /\ ~ValidOutput(k)) =>
                /\ ~HasStarted(k + 1)
                /\ pc = "raised"
                /\ error.kind = "ValidationError"
                /\ error.phase = PhaseName[k]

C6_Witness ==
    /\ pc = "raised"
    /\ CheckedOut(2)
    /\ ~ValidOutput(2)
    /\ error.phase = "Phase 2"
    /\ storyboard = NoValue

\* a run with at least one character and one location and the selected ids 1
MockRun ==
    /\ brief.num_characters >= 1
    /\ brief.num_locations >= 1
    /\ brief.selected_character_id = 1
    /\ brief.selected_location_id = 1
    /\ brief.output_path = NoneStr

C24_NoRaiseAllValid ==
    MockRun =>
        /\ pc # "raised"
        /\ \A k \in 1..6 : CheckedOut(k) => ValidOutput(k)
        /\ pc = "done" =>
              /\ trace = FullTrace
              /\ Summary.assemble_success = TRUE
              /\ Truthy(Summary.final_video_path)

\* C24: for every brief and every positive number of characters and locations
\* with selected ids 1, run_end_to_end with mock generation never raises, runs
\* all six stages to the end, every stage output passes its validator, and the
\* summary has assemble_success True and a non-empty final_video_path.
C24_RunCompletes ==
    /\ []C24_NoRaiseAllValid
    /\ MockRun ~> (pc = "done")

C24_Witness ==
    /\ MockRun
    /\ pc = "done"
    /\ brief.num_characters = MaxNum
    /\ brief.goal = "other_goal"
    /\ brief.output_path = NoneStr
    /\ Summary.final_video_path = GeneratedOutputPath
    /\ Summary.total_segments > 1

\* C17: assemble_video_with_retry runs at most max_retries rounds, starts a
\* round only while a failed index remains, runs no further round after one in
\* which no index was re-rendered, reports retry_count equal to the number of
\* rounds run, and returns whatever the callback does.
C17_RoundsHistory ==
    brief.entry = "assemble_video_with_retry" =>
        /\ Len(trace) <= brief.max_retries
        /\ \A k \in 1..Len(trace) :
              /\ trace[k].failed > 0
              /\ k < Len(trace) =>
                    /\ trace[k].retried > 0
                    /\ trace[k + 1].failed = trace[k].failed - trace[k].retried
        /\ pc = "done" =>
              /\ assemble_result.retry_count = Len(trace)
              /\ \/ Len(trace) = brief.max_retries
                 \/ asm.failed_segments = << >>
                 \/ Last(trace).retried = 0

C17_BoundedRetryRounds ==
    /\ []C17_RoundsHistory
    /\ <>(pc \in {"done", "raised"})

C17_Witness ==
    /\ pc = "done"
    /\ brief.entry = "assemble_video_with_retry"
    /\ brief.has_fn
    /\ Len(trace) = 1
    /\ brief.max_retries > 1
    /\ trace[1].failed > 1
    /\ trace[1].retried = 0
    /\ assemble_result.retry_count = 1

\* C18: assemble_video_with_retry returns success = True only when no index
\* it classified as failed (empty, None or not on disk) is left without a
\* successful re-render; otherwise success is False and the index is listed in
\* failed_segments.
C18_SuccessOnlyWhenResolved ==
    (pc = "done" /\ brief.entry = "assemble_video_with_retry") =>
        /\ assemble_result.success => asm.failed_segments = << >>
        /\ \A k \in 1..Len(asm.failed_segments) :
              \E j \in 1..Len(assemble_result.failed_segments) :
                  assemble_result.failed_segments[j] = asm.failed_segments[k]

----------------------------------------------------------------------------
(* Claims about the video plan (SpecPlan) *)

\* the input keyframes in flattened order, and the scene a keyframe was drawn in
InputKeyframes == AllKeyframes(storyboard.scenes)
SceneIndexOf(kf) == kf.id[2]

\* C7: every plan returned by generate_video_plan has segment_count equal to
\* the number of its segments and total_duration equal to the end_time of its
\* last segment.
C7_PlanCountAndTotal ==
    pc = "done" =>
        /\ video_plan.segment_count = Len(video_plan.segments)
        /\ video_plan.segments # << >> =>
                video_plan.total_duration = Last(video_plan.segments).end_time

C7_Witness ==
    /\ pc = "done"
    /\ Len(video_plan.segments) >= 3
    /\ video_plan.total_duration > 3 * Sec
    /\ video_plan.segments[1].scene_id # Last(video_plan.segments).scene_id

\* the duration the claim gives to the segment starting at input keyframe i
C8_Expected(i) ==
    LET kf == InputKeyframes[i].keyframe
        scene == storyboard.scenes[SceneIndexOf(kf)]
    IN  IF i < Len(InputKeyframes)
           /\ SceneIndexOf(InputKeyframes[i + 1].keyframe) = SceneIndexOf(kf)
        THEN InputKeyframes[i + 1].keyframe.timing - kf.timing
        ELSE scene.duration - kf.timing

\* C8: a segment's duration is end.timing - start.timing when both keyframes
\* are in the same scene, scene_duration - start.timing when the end keyframe
\* is in another scene or the segment is the last one, raised to 1.0 when it
\* is below 1.0; every segment has duration >= 1.0.
C8_SegmentDuration ==
    pc = "done" =>
        \A i \in 1..Len(video_plan.segments) :
            /\ video_plan.segments[i].duration = Max(C8_Expected(i), 1 * Sec)
            /\ video_plan.segments[i].duration >= 1 * Sec

C8_Witness ==
    /\ pc = "done"
    /\ Len(video_plan.segments) >= 3
    /\ \E i, j, k \in 1..Len(video_plan.segments) :
          /\ i < Len(InputKeyframes) /\ j < Len(InputKeyframes)
          /\ SceneIndexOf(InputKeyframes[i + 1].keyframe) = SceneIndexOf(InputKeyframes[i].keyframe)
          /\ video_plan.segments[i].duration > 1 * Sec
          /\ SceneIndexOf(InputKeyframes[j + 1].keyframe) # SceneIndexOf(InputKeyframes[j].keyframe)
          /\ video_plan.segments[j].duration > 1 * Sec
          /\ InputKeyframes[j + 1].keyframe.timing - InputKeyframes[j].keyframe.timing
                # video_plan.segments[j].duration
          /\ C8_Expected(k) < 1 * Sec
          /\ video_plan.segments[k].duration = 1 * Sec

\* C26: in every list map_storyboard_to_segments returns the segment ids are
\* 1..n in order, the first start_time is 0, every later start_time equals the
\* end_time of the segment before it, and start_time and end_time never
\* decrease along the list.
C26_RunningStartTime ==
    pc = "done" =>
        /\ \A i \in 1..Len(video_plan.segments) : video_plan.segments[i].id = i
        /\ video_plan.segments # << >> => video_plan.segments[1].start_time = 0
        /\ \A i \in 1..(Len(video_plan.segments) - 1) :
              /\ video_plan.segments[i + 1].start_time = video_plan.segments[i].end_time
              /\ video_plan.segments[i].start_time <= video_plan.segments[i + 1].start_time
              /\ video_plan.segments[i].end_time <= video_plan.segments[i + 1].end_time

C26_Witness ==
    /\ pc = "done"
    /\ Len(video_plan.segments) = 4
    /\ video_plan.segments[2].scene_id # video_plan.segments[3].scene_id
    /\ video_plan.segments[3].start_time = video_plan.segments[2].end_time
    /\ video_plan.segments[3].start_time > video_plan.segments[2].start_time
    /\ video_plan.segments[4].id = 4

\* C9: one segment per keyframe of the flattened sequence; segment i starts at
\* keyframe i and ends at keyframe i+1, also across a scene boundary; the last
\* segment starts and ends at the last keyframe.
C9_OneSegmentPerKeyframe ==
    pc = "done" =>
        /\ Len(video_plan.segments) = Len(InputKeyframes)
        /\ \A i \in 1..Len(video_plan.segments) :
              /\ video_plan.segments[i].start_keyframe.id = InputKeyframes[i].keyframe.id
              /\ video_plan.segments[i].end_keyframe.id =
                    InputKeyframes[Min(i + 1, Len(InputKeyframes))].keyframe.id

C9_Witness ==
    /\ pc = "done"
    /\ \E i \in 1..Len(video_plan.segments) :
          /\ i < Len(video_plan.segments)
          /\ SceneIndexOf(video_plan.segments[i].start_keyframe) = 1
          /\ SceneIndexOf(video_plan.segments[i].end_keyframe) = 2
    /\ Last(video_plan.segments).start_keyframe.id = Last(video_plan.segments).end_keyframe.id

----------------------------------------------------------------------------
(* Entry points: build_storyboard and build_storyboard_from_phase2 *)

SceneDurationSet == {0, 3 * Sec, 3010, 5 * Sec, 8 * Sec}
SceneIdSet == 1..(MaxScenes + 1)
ScenePurposes == <<"hook", "conflict", "reveal", "teaser">>

\* a story whose scenes carry the given ids and durations
InputStory(ids, durations) ==
    [goal |-> "build_brand", product |-> "AI Creator Tool",
     audience |-> "creators", platform |-> "TikTok",
     scenes |-> [i \in 1..Len(ids) |->
        [id |-> ids[i], purpose |-> ScenePurposes[ids[i]],
         emotion |-> "curious", duration |-> durations[i],
         description |-> <<"scene", "text">>]]]

\* scene ids are unique within a story
UniqueSceneIds(ids) == \A i, j \in 1..Len(ids) : ids[i] = ids[j] => i = j

CharacterArgs(st) == {NoneObj, generate_character_candidates(st, 1)[1]}
LocationArgs(st) == {NoneObj, generate_location_candidates(st, 1)[1]}
IdArgs == {NoneInt} \cup 1..(MaxNum + 1)

InitStoryboard ==
    /\ pc = "call"
    /\ \E m \in 0..MaxScenes :
          \E ids \in [1..m -> SceneIdSet], durations \in [1..m -> SceneDurationSet] :
              /\ UniqueSceneIds(ids)
              /\ story = InputStory(ids, durations)
    /\ \/ /\ phase2_output = NoValue
          /\ \E c \in CharacterArgs(story), l \in LocationArgs(story) :
                brief = [entry |-> "build_storyboard",
                         selected_character |-> c, selected_location |-> l,
                         selected_character_id |-> NoneInt,
                         selected_location_id |-> NoneInt]
       \/ /\ phase2_output =
                generate_phase2_output(story, MaxNum, MaxNum, NoneInt, NoneInt).output
          /\ \E c \in IdArgs, l \in IdArgs :
                brief = [entry |-> "build_storyboard_from_phase2",
                         selected_character |-> NoneObj, selected_location |-> NoneObj,
                         selected_character_id |-> c, selected_location_id |-> l]
    /\ storyboard = NoValue /\ video_plan = NoValue /\ render_result = NoValue
    /\ segment_paths = << >> /\ asm = NoValue /\ assemble_result = NoValue
    /\ error = NoError /\ trace = << >>
    /\ ProviderIdle

BuildStoryboard ==
    /\ pc = "call"
    /\ brief.entry = "build_storyboard"
    /\ IF story.scenes = << >>
       THEN /\ error' = [kind |-> "ValueError", phase |-> "Phase 3", message |-> "none"]
            /\ pc' = "raised"
            /\ UNCHANGED storyboard
       ELSE /\ storyboard' = build_storyboard(story, brief.selected_character,
                                              brief.selected_location)
            /\ pc' = "done"
            /\ UNCHANGED error
    /\ UNCHANGED <<brief, story, phase2_output, video_plan, render_result,
                   segment_paths, asm, assemble_result, trace>>
    /\ UNCHANGED providerVars

BuildStoryboardFromPhase2 ==
    /\ pc = "call"
    /\ brief.entry = "build_storyboard_from_phase2"
    /\ LET r == build_storyboard_from_phase2(phase2_output, brief.selected_character_id,
                                             brief.selected_location_id)
       IN  IF r.raised
           THEN /\ error' = [kind |-> "ValueError", phase |-> "Phase 3",
                             message |-> "none"]
                /\ pc' = "raised"
                /\ UNCHANGED storyboard
           ELSE /\ storyboard' = r.storyboard
                /\ pc' = "done"
                /\ UNCHANGED error
    /\ UNCHANGED <<brief, story, phase2_output, video_plan, render_result,
                   segment_paths, asm, assemble_result, trace>>
    /\ UNCHANGED providerVars

NextStoryboard == BuildStoryboard \/ BuildStoryboardFromPhase2

SpecStoryboard == InitStoryboard /\ [][NextStoryboard]_vars

----------------------------------------------------------------------------
(* Claims about the storyboard (SpecStoryboard) *)

Timings(keyframes) == [k \in 1..Len(keyframes) |-> keyframes[k].timing]

\* C11: a scene gets 1 keyframe when duration <= 3, 2 when 3 < duration <= 5
\* and 3 when duration > 5, and neither the count nor the timings depend on
\* the selected character or location.
C11_KeyframeCount ==
    pc = "done" =>
        \A i \in 1..Len(storyboard.scenes) :
            LET scene == storyboard.scenes[i]
                n == Len(scene.keyframes)
            IN  /\ n \in 1..3
                /\ scene.duration <= 3 * Sec => n = 1
                /\ (3 * Sec < scene.duration /\ scene.duration <= 5 * Sec) => n = 2
                /\ scene.duration > 5 * Sec => n = 3
                /\ \A c \in CharacterArgs(story), l \in LocationArgs(story) :
                      Timings(map_scene_to_keyframes(story.scenes[i], c, l))
                          = Timings(scene.keyframes)

C11_Witness ==
    /\ pc = "done"
    /\ IsDict(storyboard.selected_character)
    /\ \E i, j \in 1..Len(storyboard.scenes) :
          /\ storyboard.scenes[i].duration = 3010
          /\ Len(storyboard.scenes[i].keyframes) = 2
          /\ storyboard.scenes[j].duration = 8 * Sec
          /\ Len(storyboard.scenes[j].keyframes) = 3

StoryboardKeyframes == AllKeyframes(storyboard.scenes)

EffectiveId(arg, key) ==
    IF arg # NoneInt THEN arg ELSE phase2_output.selection[key]

\* C20: build_storyboard_from_phase2 raises when the selected character id or
\* the selected location id matches no candidate of the Phase2Output.
C20_InvalidSelectionRaises ==
    (/\ pc # "call"
     /\ brief.entry = "build_storyboard_from_phase2"
     /\ \/ EffectiveId(brief.selected_character_id, "selected_character_id")
               \notin Ids(phase2_output.characters)
        \/ EffectiveId(brief.selected_location_id, "selected_location_id")
               \notin Ids(phase2_output.locations))
    => pc = "raised"

----------------------------------------------------------------------------
(* adapters: provider factories and the selection strategy *)

pipelineVars == <<story, phase2_output, storyboard, video_plan, render_result,
                  segment_paths, asm, assemble_result>>

\* mutant: the stub is tried before google
IMAGE_PROVIDER_PRIORITY_StubFirst == <<"stub", "google">>

IMAGE_PROVIDER_PRIORITY == <<"google", "stub">>

\* values of IMAGE_PROVIDER / VIDEO_PROVIDER / AUDIO_PROVIDER in the environment
ConfigValues == {"mock", "google", "stub", "auto", "veo", "Google", "AUTO", "dalle"}

\* str.lower() on the configuration values
Lower(s) ==
    CASE s = "Google" -> "google"
      [] s = "AUTO" -> "auto"
      [] OTHER -> s

\* what calling the registered factory of a provider does: the Google and Veo
\* constructors raise without credentials, the stub factory is whatever
\* register_provider_factory stored last, the mock constructor cannot fail
FactoryOutcome(name) ==
    CASE name = "mock" -> "ok"
      [] name \in {"google", "veo"} -> IF brief.credentials THEN "ok" ELSE "raise"
      [] name = "stub" -> brief.stub_factory
      [] OTHER -> "missing"

Instance(name) == [kind |-> name, media |-> brief.media]

\* try_provider / _try_provider_safe / _try_video_provider_safe:
\* (provider, None) or (None, error message)
try_provider(name) ==
    IF FactoryOutcome(name) = "ok"
    THEN [provider |-> Instance(name), error |-> NoneStr]
    ELSE [provider |-> NoneObj, error |-> FactoryOutcome(name)]

Warn(text) == Append(warnings, text)

ApiOutcomes == {"ok", "timeout", "quota", "auth", "error"}

ApiError(outcome) ==
    CASE outcome = "timeout" -> "ProviderTimeoutError"
      [] outcome = "quota" -> "ProviderQuotaExceededError"
      [] outcome = "auth" -> "ProviderAuthenticationError"
      [] OTHER -> "ProviderError"

InitProviders ==
    /\ pc = "get"
    /\ brief \in [media : {"image", "video", "audio"},
                  provider_type : ConfigValues,
                  credentials : BOOLEAN,
                  stub_factory : {"ok", "raise"},
                  api : ApiOutcomes]
    /\ Idle
    /\ ProviderIdle

\* mutant: an explicitly configured provider that fails to initialize is not
\* replaced by the mock
GetImageProvider_NoFallback ==
    /\ pc = "get"
    /\ brief.media = "image"
    /\ LET t == Lower(brief.provider_type)
       IN  IF t = "mock"
           THEN /\ provider' = Instance("mock")
                /\ pc' = "selected"
                /\ UNCHANGED <<warnings, trace, error>>
           ELSE IF t = "auto"
           THEN /\ pc' = "auto"
                /\ UNCHANGED <<provider, warnings, trace, error>>
           ELSE IF t \in {"google", "stub"}
           THEN LET r == try_provider(t)
                IN  /\ trace' = Append(trace, t)
                    /\ IF r.provider # NoneObj
                       THEN /\ provider' = r.provider
                            /\ pc' = "selected"
                            /\ UNCHANGED <<warnings, error>>
                       ELSE /\ error' = [kind |-> "ProviderAuthenticationError",
                                         phase |-> "get_image_provider",
                                         message |-> r.error]
                            /\ pc' = "raised"
                            /\ UNCHANGED <<provider, warnings>>
           ELSE /\ warnings' = Warn(<<"Unknown IMAGE_PROVIDER value", t>>)
                /\ provider' = Instance("mock")
                /\ pc' = "selected"
                /\ UNCHANGED <<trace, error>>
    /\ UNCHANGED <<brief, generation>>
    /\ UNCHANGED pipelineVars

GetImageProvider ==
    /\ pc = "get"
    /\ brief.media = "image"
    /\ LET t == Lower(brief.provider_type)
       IN  IF t = "mock"
           THEN /\ provider' = Instance("mock")
                /\ pc' = "selected"
                /\ UNCHANGED <<warnings, trace>>
           ELSE IF t = "auto"
           THEN /\ pc' = "auto"
                /\ UNCHANGED <<provider, warnings, trace>>
           ELSE IF t \in {"google", "stub"}
           THEN LET r == try_provider(t)
                IN  /\ trace' = Append(trace, t)
                    /\ pc' = "selected"
                    /\ IF r.provider # NoneObj
                       THEN /\ provider' = r.provider
                            /\ UNCHANGED warnings
                       ELSE /\ warnings' = Warn(<<"Failed to initialize", t, r.error,
                                                  "Falling back to mock">>)
                            /\ provider' = Instance("mock")
           ELSE /\ warnings' = Warn(<<"Unknown IMAGE_PROVIDER value", t>>)
                /\ provider' = Instance("mock")
                /\ pc' = "selected"
                /\ UNCHANGED trace
    /\ UNCHANGED <<brief, generation, error>>
    /\ UNCHANGED pipelineVars

\* get_provider_with_fallback, one iteration of the loop over provider_names
AutoTry ==
    /\ pc = "auto"
    /\ Len(trace) < Len(IMAGE_PROVIDER_PRIORITY)
    /\ LET provider_name == IMAGE_PROVIDER_PRIORITY[Len(trace) + 1]
           r == try_provider(provider_name)
       IN  /\ trace' = Append(trace, provider_name)
           /\ IF r.provider # NoneObj
              THEN /\ provider' = r.provider
                   /\ pc' = "selected"
                   /\ UNCHANGED warnings
              ELSE /\ warnings' = Warn(<<"Failed to initialize provider", provider_name,
                                         r.error, "Trying next provider in chain">>)
                   /\ UNCHANGED <<provider, pc>>
    /\ UNCHANGED <<brief, generation, error>>
    /\ UNCHANGED pipelineVars

\* get_provider_with_fallback after the loop: the fallback provider
AutoFallback ==
    /\ pc = "auto"
    /\ Len(trace) = Len(IMAGE_PROVIDER_PRIORITY)
    /\ LET r == try_provider("mock")
       IN  /\ trace' = Append(trace, "mock")
           /\ IF r.provider # NoneObj
              THEN /\ warnings' = Warn(<<"All providers failed. Using fallback", "mock">>)
                   /\ provider' = r.provider
                   /\ pc' = "selected"
                   /\ UNCHANGED error
              ELSE /\ error' = [kind |-> "RuntimeError", phase |-> "get_image_provider",
                                message |-> r.error]
                   /\ pc' = "raised"
                   /\ UNCHANGED <<provider, warnings>>
    /\ UNCHANGED <<brief, generation>>
    /\ UNCHANGED pipelineVars

GetVideoProvider ==
    /\ pc = "get"
    /\ brief.media = "video"
    /\ LET t == Lower(brief.provider_type)
       IN  IF t = "mock"
           THEN /\ provider' = Instance("mock")
                /\ UNCHANGED <<warnings, trace>>
           ELSE IF t = "veo"
           THEN LET r == try_provider("veo")
                IN  /\ trace' = Append(trace, "veo")
                    /\ IF r.provider # NoneObj
                       THEN /\ provider' = r.provider
                            /\ UNCHANGED warnings
                       ELSE /\ warnings' = Warn(<<"Failed to initialize", "veo", r.error,
                                                  "Falling back to mock">>)
                            /\ provider' = Instance("mock")
           ELSE /\ warnings' = Warn(<<"Unknown VIDEO_PROVIDER value", t>>)
                /\ provider' = Instance("mock")
                /\ UNCHANGED trace
    /\ pc' = "selected"
    /\ UNCHANGED <<brief, generation, error>>
    /\ UNCHANGED pipelineVars

GetAudioProvider ==
    /\ pc = "get"
    /\ brief.media = "audio"
    /\ provider' = Instance("mock")
    /\ pc' = "selected"
    /\ UNCHANGED <<brief, generation, error, warnings, trace>>
    /\ UNCHANGED pipelineVars

\* the caller invokes generate_image on the provider the factory returned
GenerateImage ==
    /\ pc = "selected"
    /\ brief.media = "image"
    /\ IF provider.kind = "mock"
       THEN /\ generation' = [success |-> TRUE, provider |-> "mock", error |-> NoneStr]
            /\ pc' = "done"
            /\ UNCHANGED error
       ELSE IF provider.kind = "stub"
       THEN /\ generation' = [success |-> FALSE, provider |-> "stub",
                              error |-> "StubImageProvider: Placeholder provider (not implemented)"]
            /\ pc' = "done"
            /\ UNCHANGED error
       ELSE IF brief.api = "ok"
       THEN /\ generation' = [success |-> TRUE, provider |-> "google", error |-> NoneStr]
            /\ pc' = "done"
            /\ UNCHANGED error
       ELSE /\ error' = [kind |-> ApiError(brief.api), phase |-> "generate_image",
                         message |-> brief.api]
            /\ pc' = "raised"
            /\ UNCHANGED generation
    /\ UNCHANGED <<brief, provider, warnings, trace>>
    /\ UNCHANGED pipelineVars

NextProviders ==
    \/ GetImageProvider
    \/ AutoTry
    \/ AutoFallback
    \/ GetVideoProvider
    \/ GetAudioProvider
    \/ GenerateImage

SpecProviders == InitProviders /\ [][NextProviders]_vars

----------------------------------------------------------------------------
(* Claims about the providers (SpecProviders) *)

Returned == pc \in {"selected", "done"} \/ (pc = "raised" /\ error.phase = "generate_image")

AutoOrder == <<"google", "stub", "mock">>

\* C14: under the auto policy the names are tried in the order google, stub;
\* the first one that initializes is returned and no later one is tried; when
\* all of them fail the mock provider is returned as the last resort.
C14_AutoTriesInOrder ==
    (brief.media = "image" /\ Lower(brief.provider_type) = "auto") =>
        /\ Len(trace) <= Len(AutoOrder)
        /\ trace = SubSeq(AutoOrder, 1, Len(trace))
        /\ \A i \in 1..Len(trace) :
              (i < Len(trace) \/ pc = "auto") => FactoryOutcome(trace[i]) # "ok"
        /\ Returned =>
              /\ trace # << >>
              /\ provider.kind = Last(trace)
              /\ FactoryOutcome(Last(trace)) = "ok"

C14_Witness ==
    /\ pc = "selected"
    /\ brief.provider_type = "auto"
    /\ brief.media = "image"
    /\ trace = <<"google", "stub", "mock">>
    /\ provider.kind = "mock"

\* the generate_image call on the returned provider failed
CallFailed ==
    \/ provider.kind = "stub"
    \/ provider.kind = "google" /\ brief.api # "ok"

\* C15: a failure of the selected non-mock image provider at call time is not
\* surfaced to the caller: the generation degrades to the mock provider.
C15_CallFailureDegradesToMock ==
    (/\ brief.media = "image"
     /\ pc \in {"done", "raised"}
     /\ CallFailed)
    => (/\ pc = "done"
        /\ generation.success
        /\ generation.provider = "mock")

----------------------------------------------------------------------------
(* Entry point: render_segments_from_video_plan, one step per loop iteration *)
(* and per video-generation call (SpecRenderSteps)                           *)

\* the story context the batch hands to render_segment
BatchStoryContext ==
    IF brief.story_context = NoneObj
    THEN Get(Get(video_plan, "storyboard_metadata", <<>>), "story", NoneObj)
    ELSE brief.story_context

\* the plan segment the loop is at: one after the results recorded so far
LoopIndex == Len(render_result.rendered_segments) + 1

\* mutant: the checks of render_segment before the API call are skipped
RenderChecksPass_Always(segment, story_context) == TRUE

\* render_segment reaches its call of mock_google_video_generation
RenderChecksPass(segment, story_context) ==
    /\ IsDict(segment)
    /\ Get(segment, "id", NoneInt) # NoneInt
    /\ ~MissingField(segment, RequiredSegmentFields)
    /\ IsDict(segment.start_keyframe)
    /\ IsDict(segment.end_keyframe)
    /\ ~MissingKeyframeField(segment.start_keyframe, segment.end_keyframe)
    /\ ~build_render_prompt(segment, story_context).raised

StepsUnchanged ==
    /\ UNCHANGED <<brief, story, phase2_output, storyboard, video_plan,
                   segment_paths, asm, assemble_result>>
    /\ UNCHANGED <<provider, warnings>>

\* the checks on video_plan before the loop
BatchStart ==
    /\ pc = "call"
    /\ IF \/ ~IsDict(video_plan) \/ "segments" \notin DOMAIN video_plan
          \/ Get(video_plan, "segments", << >>) = << >>
       THEN /\ error' = [kind |-> "ValueError"]
            /\ pc' = "raised"
            /\ UNCHANGED render_result
       ELSE /\ render_result' = [rendered_segments |-> << >>, successful_count |-> 0,
                                 failed_segments |-> << >>]
            /\ pc' = "loop"
            /\ UNCHANGED error
    /\ UNCHANGED <<trace, generation>>
    /\ StepsUnchanged

\* an iteration that ends in the ValueError of the keyframe checks
BatchSegmentRaises ==
    /\ pc = "loop"
    /\ LoopIndex <= Len(video_plan.segments)
    /\ PlanSegmentRaises(video_plan.segments[LoopIndex]) = TRUE
    /\ error' = [kind |-> "ValueError"]
    /\ pc' = "raised"
    /\ UNCHANGED <<render_result, trace, generation>>
    /\ StepsUnchanged

\* an iteration in which render_segment returns a failure before the API call
RenderRejected ==
    /\ pc = "loop"
    /\ LoopIndex <= Len(video_plan.segments)
    /\ ~PlanSegmentRaises(video_plan.segments[LoopIndex])
    /\ LET segment == video_plan.segments[LoopIndex]
           phase5_segment == Phase5Segment(video_plan, segment)
       IN  /\ ~RenderChecksPass(phase5_segment, BatchStoryContext)
           /\ \E u \in UniqueIds :
                 render_result' =
                    [render_result EXCEPT
                        !.rendered_segments =
                            Append(@, render_segment(phase5_segment, BatchStoryContext, u)),
                        !.failed_segments = Append(@, Get(segment, "id", NoneInt))]
           /\ trace' = Append(trace, [event |-> "recorded", index |-> LoopIndex])
    /\ UNCHANGED <<pc, error, generation>>
    /\ StepsUnchanged

\* render_segment calls mock_google_video_generation for the segment
StartGeneration ==
    /\ pc = "loop"
    /\ LoopIndex <= Len(video_plan.segments)
    /\ ~PlanSegmentRaises(video_plan.segments[LoopIndex])
    /\ LET phase5_segment == Phase5Segment(video_plan, video_plan.segments[LoopIndex])
       IN  /\ RenderChecksPass(phase5_segment, BatchStoryContext)
           /\ \E u \in UniqueIds :
                 generation' = [segments |-> <<phase5_segment>>, unique_id |-> u]
    /\ trace' = Append(trace, [event |-> "call", index |-> LoopIndex])
    /\ pc' = "generating"
    /\ UNCHANGED <<render_result, error>>
    /\ StepsUnchanged

\* the call returns; the loop appends the result and counts it
FinishGeneration ==
    /\ pc = "generating"
    /\ LET segment == video_plan.segments[LoopIndex]
           result == render_segment(generation.segments[1], BatchStoryContext,
                                    generation.unique_id)
       IN  render_result' =
              [render_result EXCEPT
                  !.rendered_segments = Append(@, result),
                  !.successful_count = IF result.success THEN @ + 1 ELSE @,
                  !.failed_segments = IF result.success THEN @
                                      ELSE Append(@, Get(segment, "id", NoneInt))]
    /\ trace' = Append(trace, [event |-> "recorded", index |-> LoopIndex])
    /\ generation' = NoValue
    /\ pc' = "loop"
    /\ UNCHANGED error
    /\ StepsUnchanged

\* the loop is over: the result dictionary is returned
BatchReturn ==
    /\ pc = "loop"
    /\ LoopIndex > Len(video_plan.segments)
    /\ render_result' =
          [success |-> Len(render_result.failed_segments) = 0,
           total_segments |-> Len(video_plan.segments),
           successful_segments |-> render_result.successful_count,
           failed_segments |-> render_result.failed_segments,
           rendered_segments |-> render_result.rendered_segments]
    /\ pc' = "done"
    /\ UNCHANGED <<error, trace, generation>>
    /\ StepsUnchanged

NextRenderSteps ==
    \/ BatchStart \/ BatchSegmentRaises \/ RenderRejected
    \/ StartGeneration \/ FinishGeneration \/ BatchReturn

SpecRenderSteps == InitRenderPlan /\ [][NextRenderSteps]_vars

----------------------------------------------------------------------------
(* Claims about the order of generation calls (SpecRenderSteps) *)

\* the positions in trace of the calls, and the plan segments they are for
CallPositions == {k \in 1..Len(trace) : trace[k].event = "call"}
RecordedBefore(k) == {j \in 1..(k - 1) : trace[j].event = "recorded"}

\* a plan segment that passes the checks of the batch loop and of render_segment
PassesRenderChecks(segment) ==
    /\ HasKeyframes(segment)
    /\ Get(segment, "id", NoneInt) # NoneInt

\* the stepwise run returns what render_segments_from_video_plan computes
StepsAgreeWithBatch ==
    pc = "done" =>
        \E unique_ids \in [1..Len(video_plan.segments) -> UniqueIds] :
            render_result = render_segments_from_video_plan(
                                video_plan, brief.story_context, unique_ids).result

\* C22: generation calls are issued one after another, one segment per call,
\* in plan order; a call for segment i starts only when the results of the
\* i-1 segments before it are recorded; only segments that pass the render
\* checks get a call, and when the batch returns each of them has exactly one.
C22_OneCallPerSegmentInOrder ==
    /\ pc = "generating" => Len(generation.segments) = 1
    /\ \A k \in CallPositions :
          /\ Cardinality(RecordedBefore(k)) = trace[k].index - 1
          /\ \A j \in RecordedBefore(k) : trace[j].index < trace[k].index
          /\ PassesRenderChecks(video_plan.segments[trace[k].index])
    /\ \A k, j \in CallPositions : trace[k].index = trace[j].index => k = j
    /\ pc = "done" =>
          \A i \in 1..Len(video_plan.segments) :
              PassesRenderChecks(video_plan.segments[i])
                 => \E k \in CallPositions : trace[k].index = i

C22_Witness ==
    /\ pc = "done"
    /\ Len(video_plan.segments) >= 2
    /\ ~PassesRenderChecks(video_plan.segments[1])
    /\ PassesRenderChecks(video_plan.segments[2])
    /\ trace = <<[event |-> "recorded", index |-> 1],
                 [event |-> "call", index |-> 2],
                 [event |-> "recorded", index |-> 2]>>

----------------------------------------------------------------------------
(* Entry points: generate_phase2_output followed by update_selection calls *)

InitSelection ==
    /\ pc = "call"
    /\ brief \in [num_characters : 0..MaxNum, num_locations : 0..MaxNum,
                  selected_character_id : IdArgs, selected_location_id : IdArgs]
    /\ story = SampleStory
    /\ phase2_output = NoValue /\ storyboard = NoValue
    /\ video_plan = NoValue /\ render_result = NoValue
    /\ segment_paths = << >> /\ asm = NoValue /\ assemble_result = NoValue
    /\ error = NoError /\ trace = << >>
    /\ ProviderIdle

GeneratePhase2Output ==
    /\ pc = "call"
    /\ LET r == generate_phase2_output(story, brief.num_characters, brief.num_locations,
                                       brief.selected_character_id,
                                       brief.selected_location_id)
       IN  IF r.raised
           THEN /\ error' = [kind |-> "ValueError", phase |-> "Phase 2",
                             message |-> "none"]
                /\ pc' = "raised"
                /\ UNCHANGED phase2_output
           ELSE /\ phase2_output' = r.output
                /\ pc' = "ready"
                /\ UNCHANGED error
    /\ UNCHANGED <<brief, story, storyboard, video_plan, render_result,
                   segment_paths, asm, assemble_result, trace>>
    /\ UNCHANGED providerVars

\* one call of update_selection on the output; the caller survives a ValueError
UpdateSelection ==
    /\ pc = "ready"
    /\ Len(trace) < MaxUpdates
    /\ \E c \in IdArgs, l \in IdArgs :
          LET r == update_selection(phase2_output, c, l)
          IN  /\ phase2_output' = r.output
              /\ trace' = Append(trace, IF r.raised THEN "raised" ELSE "returned")
              /\ error' = IF r.raised
                          THEN [kind |-> "ValueError", phase |-> "Phase 2",
                                message |-> "none"]
                          ELSE NoError
    /\ UNCHANGED <<pc, brief, story, storyboard, video_plan, render_result,
                   segment_paths, asm, assemble_result>>
    /\ UNCHANGED providerVars

NextSelection == GeneratePhase2Output \/ UpdateSelection

SpecSelection == InitSelection /\ [][NextSelection]_vars

----------------------------------------------------------------------------
(* Claims about the selection (SpecSelection) *)

\* the caller supplied an id that generate_phase2_output did not generate
SuppliedIdUnknown ==
    \/ /\ brief.selected_character_id # NoneInt
       /\ brief.selected_character_id \notin 1..brief.num_characters
    \/ /\ brief.selected_location_id # NoneInt
       /\ brief.selected_location_id \notin 1..brief.num_locations

ReferencesOrNone(id, list) ==
    IF list = << >> THEN id = NoneInt ELSE id \in Ids(list)

C28_FailedUpdateChangesNothing ==
    [][(trace' # trace /\ Last(trace') = "raised")
          => phase2_output'.selection = phase2_output.selection]_vars

----------------------------------------------------------------------------
(* Entry points: validate_phase1_story and validate_phase2_output on objects *)
(* a caller hands in, duplicate ids included                                 *)

\* the candidates with their ids replaced by ids[1], ids[2], ...
WithIds(list, ids) == [i \in 1..Len(list) |-> [list[i] EXCEPT !.id = ids[i]]]

InputPhase2Output(character_ids, location_ids, character_id, location_id) ==
    [story |-> SampleStory,
     characters |-> WithIds(generate_character_candidates(SampleStory, Len(character_ids)),
                            character_ids),
     locations |-> WithIds(generate_location_candidates(SampleStory, Len(location_ids)),
                           location_ids),
     selection |-> [selected_character_id |-> character_id,
                    selected_location_id |-> location_id]]

InitValidate ==
    /\ pc = "call"
    /\ \/ /\ brief = [validator |-> "validate_phase1_story"]
          /\ \E m \in 0..MaxScenes :
                \E ids \in [1..m -> SceneIdSet], durations \in [1..m -> SceneDurationSet] :
                    story = InputStory(ids, durations)
          /\ phase2_output = NoValue
       \/ /\ brief = [validator |-> "validate_phase2_output"]
          /\ story = NoValue
          /\ \E m \in 0..MaxNum, n \in 1..MaxNum :
                \E cids \in [1..m -> 1..MaxNum], lids \in [1..n -> 1..MaxNum] :
                    \E c \in {NoneInt} \cup 1..MaxNum :
                        phase2_output = InputPhase2Output(cids, lids, c, 1)
    /\ storyboard = NoValue
    /\ video_plan = NoValue /\ render_result = NoValue
    /\ segment_paths = << >> /\ asm = NoValue /\ assemble_result = NoValue
    /\ error = NoError /\ trace = << >>
    /\ ProviderIdle

\* trace records the first component of the validator's (is_valid, message)
ValidateStory ==
    /\ pc = "call"
    /\ brief.validator = "validate_phase1_story"
    /\ trace' = <<validate_phase1_story(story)>>
    /\ pc' = "done"
    /\ UNCHANGED <<brief, story, phase2_output, storyboard, video_plan, render_result,
                   segment_paths, asm, assemble_result, error>>
    /\ UNCHANGED providerVars

ValidatePhase2Output ==
    /\ pc = "call"
    /\ brief.validator = "validate_phase2_output"
    /\ trace' = <<validate_phase2_output(phase2_output)>>
    /\ pc' = "done"
    /\ UNCHANGED <<brief, story, phase2_output, storyboard, video_plan, render_result,
                   segment_paths, asm, assemble_result, error>>
    /\ UNCHANGED providerVars

NextValidate == ValidateStory \/ ValidatePhase2Output

SpecValidate == InitValidate /\ [][NextValidate]_vars

----------------------------------------------------------------------------
(* Claims about the validators (SpecValidate) *)

\* two entries of the list carry the same id
HasDuplicateId(list) ==
    \E i, j \in 1..Len(list) : i # j /\ list[i].id = list[j].id

\* C21: a story with two scenes of the same id, and a Phase 2 output whose
\* characters or locations hold two entries of the same id, are rejected by
\* their validators.
C21_DuplicateIdsRejected ==
    pc = "done" =>
        /\ (brief.validator = "validate_phase1_story" /\ HasDuplicateId(story.scenes))
              => trace = <<FALSE>>
        /\ (/\ brief.validator = "validate_phase2_output"
            /\ \/ HasDuplicateId(phase2_output.characters)
               \/ HasDuplicateId(phase2_output.locations))
              => trace = <<FALSE>>

----------------------------------------------------------------------------
(* Entry points: GoogleImageProvider.generate_image and                      *)
(* VeoVideoProvider.generate_video_segment against an HTTP endpoint          *)

HttpStatuses == {200, 401, 403, 429, 500, 504}
AuthStatuses == {401, 403}
ResponseBodies == {"bytes", "gcs", "empty"}

\* the exception the checks after the POSTs raise for the status, "none" for 200
StatusError(method, status) ==
    IF status = 429 THEN "ProviderQuotaExceededError"
    ELSE IF status = 504 /\ method = "generate_image" THEN "ProviderTimeoutError"
    ELSE IF status # 200 THEN "ProviderError"
    ELSE "none"

InitHttp ==
    /\ pc = "post"
    /\ brief \in [method : {"generate_image", "generate_video_segment"},
                  responses : [1..2 -> HttpStatuses],
                  body : ResponseBodies]
    /\ Idle
    /\ ProviderIdle

\* the status checks and the parsing of the response, after the last POST
HandleResponse(status) ==
    IF StatusError(brief.method, status) # "none"
    THEN /\ error' = [kind |-> StatusError(brief.method, status),
                      phase |-> brief.method, message |-> status]
         /\ pc' = "raised"
         /\ UNCHANGED generation
    ELSE IF brief.body = "empty"
    THEN /\ error' = [kind |-> "ProviderError", phase |-> brief.method,
                      message |-> "empty predictions"]
         /\ pc' = "raised"
         /\ UNCHANGED generation
    ELSE /\ generation' = [success |-> TRUE, provider |-> "google", error |-> NoneStr]
         /\ pc' = "done"
         /\ UNCHANGED error

\* the download of a video the API left in cloud storage
Download ==
    IF /\ brief.method = "generate_video_segment"
       /\ brief.body = "gcs"
    THEN <<[verb |-> "GET", auth |-> "none"]>>
    ELSE << >>

\* requests.post with the bearer header
Post ==
    /\ pc = "post"
    /\ IF brief.responses[1] \in AuthStatuses
       THEN /\ trace' = Append(trace, [verb |-> "POST", auth |-> "bearer"])
            /\ pc' = "retry"
            /\ UNCHANGED <<error, generation>>
       ELSE /\ HandleResponse(brief.responses[1])
            /\ trace' = Append(trace, [verb |-> "POST", auth |-> "bearer"])
                        \o (IF pc' = "done" THEN Download ELSE << >>)
    /\ UNCHANGED <<brief, provider, warnings>>
    /\ UNCHANGED pipelineVars

\* requests.post with the key as query parameter, after a 401 or 403
PostWithKey ==
    /\ pc = "retry"
    /\ IF brief.responses[2] \in AuthStatuses
       THEN /\ error' = [kind |-> "ProviderAuthenticationError", phase |-> brief.method,
                         message |-> brief.responses[2]]
            /\ pc' = "raised"
            /\ trace' = Append(trace, [verb |-> "POST", auth |-> "query_key"])
            /\ UNCHANGED generation
       ELSE /\ HandleResponse(brief.responses[2])
            /\ trace' = Append(trace, [verb |-> "POST", auth |-> "query_key"])
                        \o (IF pc' = "done" THEN Download ELSE << >>)
    /\ UNCHANGED <<brief, provider, warnings>>
    /\ UNCHANGED pipelineVars

NextHttp == Post \/ PostWithKey

SpecHttp == InitHttp /\ [][NextHttp]_vars

----------------------------------------------------------------------------
(* Claims about the HTTP error handling (SpecHttp) *)

Posts == SelectSeq(trace, LAMBDA r : r.verb = "POST")

\* the status of the last POST the method made
LastStatus ==
    IF brief.responses[1] \in AuthStatuses THEN brief.responses[2]
    ELSE brief.responses[1]

\* C23: in both methods a 401/403 leads to exactly one retry with the key as
\* query parameter and, if that is answered 401/403 again, to an authentication
\* error; 429 gives a quota error, 504 a timeout error, any other status but
\* 200 a generic provider error; there is no other retry.
C23_StatusMapping ==
    pc \in {"done", "raised"} =>
        /\ Posts = IF brief.responses[1] \in AuthStatuses
                   THEN <<[verb |-> "POST", auth |-> "bearer"],
                          [verb |-> "POST", auth |-> "query_key"]>>
                   ELSE <<[verb |-> "POST", auth |-> "bearer"]>>
        /\ LastStatus \in AuthStatuses => error.kind = "ProviderAuthenticationError"
        /\ LastStatus = 429 => error.kind = "ProviderQuotaExceededError"
        /\ LastStatus = 504 => error.kind = "ProviderTimeoutError"
        /\ LastStatus = 500 => error.kind = "ProviderError"

----------------------------------------------------------------------------
(* Entry point: the Phase 5.5 stage of run_end_to_end, entered with every    *)
(* render result render_segments_from_video_plan returns, failed segments    *)
(* included                                                                  *)

InitAssembleStage ==
    /\ pc = "phase5_5"
    /\ brief \in [output_path : OutputPaths]
    /\ video_plan \in InputPlans
    /\ LET n == IF "segments" \in DOMAIN video_plan THEN Len(video_plan.segments) ELSE 0
           r == render_segments_from_video_plan(video_plan, NoneObj,
                                                [i \in 1..n |-> "a1"])
       IN  /\ ~r.raised
           /\ validate_phase5_render_result(r.result)
           /\ render_result = r.result
    /\ story = NoValue /\ phase2_output = NoValue /\ storyboard = NoValue
    /\ segment_paths = << >> /\ asm = NoValue /\ assemble_result = NoValue
    /\ error = NoError
    /\ trace = SubSeq(FullTrace, 1, 10)
    /\ ProviderIdle

NextAssembleStage == Phase5_5 \/ ValidatePhase5_5

SpecAssembleStage == InitAssembleStage /\ [][NextAssembleStage]_vars

\* C25: whenever the run returns, the assemble result has success True and
\* total_segments equal to the number of successfully rendered segments, also
\* when Phase 5 recorded failed segments: only the paths of the successful
\* segments are handed to the assembler.
C25_PartialRenderStillAssembles ==
    pc = "done" =>
        /\ assemble_result.success = TRUE
        /\ assemble_result.failed_segments = << >>
        /\ assemble_result.total_segments = render_result.successful_segments
        /\ assemble_result.total_segments = CountSuccess(render_result.rendered_segments)
        /\ Len(segment_paths) = render_result.successful_segments
        /\ \A i \in 1..Len(segment_paths) : Truthy(segment_paths[i])

C25_Witness ==
    /\ pc = "done"
    /\ render_result.success = FALSE
    /\ render_result.failed_segments # << >>
    /\ render_result.total_segments = 2
    /\ assemble_result.total_segments = 1
    /\ assemble_result.success = TRUE

----------------------------------------------------------------------------
(* Entry point: app_streamlit, one step per interaction: the script runs     *)
(* again from the top with the widget the user touched                       *)

AppPhases ==
    {"Phase 1: Story Input", "Phase 2: Cast & Locations", "Phase 3: Storyboard",
     "Phase 4: Video Plan", "Phase 5: Render Segments", "Phase 5.5: Assemble Video"}

\* sub in s, on Python strings
In(sub, s) ==
    \E i \in 1..(Len(s) - Len(sub) + 1) : SubSeq(s, i, i + Len(sub) - 1) = sub

\* the branch of the main area the script enters: the first test of the
\* if/elif chain that holds
Branch(selected_phase) ==
    IF In("Phase 1", selected_phase) THEN 1
    ELSE IF In("Phase 2", selected_phase) THEN 2
    ELSE IF In("Phase 3", selected_phase) THEN 3
    ELSE IF In("Phase 4", selected_phase) THEN 4
    ELSE IF In("Phase 5", selected_phase) THEN 5
    ELSE IF In("Phase 5.5", selected_phase) THEN 6
    ELSE 0

\* not st.session_state.get(key), on an output that is None or a filled dict
Missing(output) == output = NoneObj

InitApp ==
    /\ pc = "app"
    /\ brief \in [selected_phase : {"Phase 1: Story Input"},
                  selected_character_id : {1},
                  selected_location_id : {1},
                  goal : {"sell_online_course", "other_goal"},
                  product : {"AI Creator Tool"},
                  audience : {"beginners"},
                  platform : {"Facebook Reel"},
                  num_characters : {1, MaxNum},
                  num_locations : {1, MaxNum}]
    /\ 1 \in {brief.num_characters, brief.num_locations}
    /\ story = NoneObj /\ phase2_output = NoneObj /\ storyboard = NoneObj
    /\ video_plan = NoneObj /\ render_result = NoneObj /\ assemble_result = NoneObj
    /\ segment_paths = << >> /\ asm = NoValue
    /\ error = NoError /\ trace = << >>
    /\ ProviderIdle

\* the sidebar radio bound to session_state.selected_phase
SelectPhase ==
    /\ pc = "app"
    /\ \E p \in AppPhases : brief' = [brief EXCEPT !.selected_phase = p]
    /\ trace' = <<"select">>
    /\ UNCHANGED <<pc, story, phase2_output, storyboard, video_plan, render_result,
                   segment_paths, asm, assemble_result, error>>
    /\ UNCHANGED providerVars

\* the two selectboxes of the Phase 2 branch
SelectCast ==
    /\ pc = "app"
    /\ Branch(brief.selected_phase) = 2
    /\ ~Missing(story)
    /\ ~Missing(phase2_output)
    /\ \E c \in Ids(phase2_output.characters), l \in Ids(phase2_output.locations) :
          brief' = [brief EXCEPT !.selected_character_id = c,
                                 !.selected_location_id = l]
    /\ trace' = <<"cast">>
    /\ UNCHANGED <<pc, story, phase2_output, storyboard, video_plan, render_result,
                   segment_paths, asm, assemble_result, error>>
    /\ UNCHANGED providerVars

\* mutant: Reset Project clears the story only
ResetProject_StoryOnly ==
    /\ pc = "app"
    /\ story' = NoneObj
    /\ trace' = <<"reset">>
    /\ UNCHANGED <<pc, brief, phase2_output, storyboard, video_plan, render_result,
                   segment_paths, asm, assemble_result, error>>
    /\ UNCHANGED providerVars

\* the Reset Project button of the sidebar
ResetProject ==
    /\ pc = "app"
    /\ story' = NoneObj
    /\ phase2_output' = NoneObj
    /\ storyboard' = NoneObj
    /\ video_plan' = NoneObj
    /\ render_result' = NoneObj
    /\ assemble_result' = NoneObj
    /\ trace' = <<"reset">>
    /\ UNCHANGED <<pc, brief, segment_paths, asm, error>>
    /\ UNCHANGED providerVars

\* the session state after the button of the entered branch was pressed: a
\* disabled button and a generator that raises store nothing
Pressed(branch, unique_id) ==
    LET state == [phase1_story |-> story, phase2_output |-> phase2_output,
                  phase3_storyboard |-> storyboard, phase4_video_plan |-> video_plan,
                  phase5_render_result |-> render_result,
                  phase5_5_assemble_result |-> assemble_result]
    IN  CASE branch = 1 ->
                [state EXCEPT !.phase1_story =
                    generate_story(brief.goal, brief.product, brief.audience,
                                   brief.platform)]
          [] branch = 2 ->
                IF Missing(story) THEN state
                ELSE LET r == generate_phase2_output(story, brief.num_characters,
                                                     brief.num_locations,
                                                     NoneInt, NoneInt)
                     IN  IF r.raised THEN state
                         ELSE [state EXCEPT !.phase2_output = r.output]
          [] branch = 3 ->
                IF Missing(phase2_output) THEN state
                ELSE LET r == build_storyboard_from_phase2(
                                  phase2_output, brief.selected_character_id,
                                  brief.selected_location_id)
                     IN  IF r.raised THEN state
                         ELSE [state EXCEPT !.phase3_storyboard = r.storyboard]
          [] branch = 4 ->
                IF Missing(storyboard) THEN state
                ELSE LET r == generate_video_plan(storyboard)
                     IN  IF r.raised THEN state
                         ELSE [state EXCEPT !.phase4_video_plan = r.plan]
          [] branch = 5 ->
                IF Missing(video_plan) THEN state
                ELSE IF Missing(story) THEN state
                ELSE LET r == render_segments_from_video_plan(
                                  video_plan, story,
                                  [i \in 1..Len(video_plan.segments) |-> unique_id])
                     IN  IF r.raised THEN state
                         ELSE [state EXCEPT !.phase5_render_result = r.result]
          [] branch = 6 ->
                IF Missing(render_result) THEN state
                ELSE LET paths == SuccessfulPaths(
                                      Get(render_result, "rendered_segments", << >>))
                     IN  IF paths = << >> THEN state
                         ELSE [state EXCEPT !.phase5_5_assemble_result =
                                   assemble_video(paths, NoneStr, FALSE, 3)]
          [] OTHER -> state

\* the button shown in the main area
PressButton ==
    /\ pc = "app"
    /\ \E unique_id \in UniqueIds :
          LET after == Pressed(Branch(brief.selected_phase), unique_id)
          IN  /\ story' = after.phase1_story
              /\ phase2_output' = after.phase2_output
              /\ storyboard' = after.phase3_storyboard
              /\ video_plan' = after.phase4_video_plan
              /\ render_result' = after.phase5_render_result
              /\ assemble_result' = after.phase5_5_assemble_result
    /\ trace' = <<"press">>
    /\ UNCHANGED <<pc, brief, segment_paths, asm, error>>
    /\ UNCHANGED providerVars

NextApp == SelectPhase \/ SelectCast \/ ResetProject \/ PressButton

SpecApp == InitApp /\ [][NextApp]_vars

----------------------------------------------------------------------------
(* Claims about the Streamlit app (SpecApp) *)

SessionOutputs ==
    <<story, phase2_output, storyboard, video_plan, render_result, assemble_result>>

\* the outputs the generate button of a branch needs
Predecessors(branch) ==
    CASE branch = 2 -> {1}
      [] branch = 3 -> {2}
      [] branch = 4 -> {3}
      [] branch = 5 -> {4, 1}
      [] branch = 6 -> {5}
      [] OTHER -> {}

OutputsChained ==
    \A k \in 2..6 : SessionOutputs[k] # NoneObj => SessionOutputs[k - 1] # NoneObj

\* C29: in every state of the app the output of a phase is present only if
\* the output of the phase before it is present; a press of the generate
\* button of a branch while an output that branch needs is absent leaves all
\* six outputs as they were; and after Reset Project all six outputs are None.
C29_OutputsFollowOrder ==
    /\ []OutputsChained
    /\ [][(/\ trace' = <<"press">>
           /\ \E k \in Predecessors(Branch(brief.selected_phase)) :
                 SessionOutputs[k] = NoneObj)
          => SessionOutputs' = SessionOutputs]_vars
    /\ [][trace' = <<"reset">> => \A k \in 1..6 : SessionOutputs'[k] = NoneObj]_vars

C29_Witness ==
    /\ pc = "app"
    /\ trace = <<"press">>
    /\ Branch(brief.selected_phase) = 5
    /\ \A k \in 1..5 : SessionOutputs[k] # NoneObj
    /\ brief.selected_character_id = MaxNum

\* C30: whenever Phase 5.5: Assemble Video is selected, the render result
\* holds at least one successful segment and the button of the main area is
\* pressed, an assemble result is stored in phase5_5_assemble_result.
C30_AssembleReachable ==
    [][(/\ pc = "app"
        /\ brief.selected_phase = "Phase 5.5: Assemble Video"
        /\ render_result # NoneObj
        /\ CountSuccess(Get(render_result, "rendered_segments", << >>)) >= 1
        /\ trace' = <<"press">>)
       => assemble_result' # NoneObj]_vars

----------------------------------------------------------------------------
(* Claims about the story (SpecStory) *)

\* C10: for every goal, product, audience and platform, also a goal without a
\* template, generate_story returns exactly 4 scenes with ids 1..4, purposes
\* hook, conflict, reveal, close in that order and durations 3, 5, 5, 4.
C10_StoryShape ==
    pc = "done" =>
        /\ Len(story.scenes) = 4
        /\ \A i \in 1..4 : story.scenes[i].id = i
        /\ [i \in 1..4 |-> story.scenes[i].purpose]
              = <<"hook", "conflict", "reveal", "close">>
        /\ [i \in 1..4 |-> story.scenes[i].duration]
              = <<3 * Sec, 5 * Sec, 5 * Sec, 4 * Sec>>
        /\ \A i \in 1..4 : story.scenes[i].duration > 0

C10_Witness ==
    /\ pc = "done"
    /\ brief.goal \notin KnownGoals
    /\ Len(story.scenes) = 4
    /\ story.scenes[1].description[2] = "generic"

====
